---- MODULE Spec2Model ----
(***************************************************************************)
(* binsync: chunk-based differential sync.                                 *)
(*                                                                         *)
(* The model covers the planner (Syncer::plan) and the executor            *)
(* (Syncer::sync_from_plan) of src/src/chunk/sync.rs, the manifest         *)
(* chunking of src/src/chunk/manifest.rs and the chunk index of the basic  *)
(* provider of src/src/chunk/provider.rs.                                  *)
(*                                                                         *)
(* Files are byte sequences over a small alphabet.  The content-defined    *)
(* chunker cuts a chunk after a cut byte (0) once the chunk holds at least *)
(* MIN_CHUNK bytes, and at MAX_CHUNK bytes at the latest.  The chunk id    *)
(* (the first 8 bytes of the MD5 digest) is modelled by an injective       *)
(* numbering of byte sequences: no two contents of the model collide.      *)
(*                                                                         *)
(* Further specifications share the module.  SpecStale runs sync() with a  *)
(* BasicChunkProvider built from a manifest of its own.  SpecProgress      *)
(* follows the counter and the f32 percentage of the progress callback     *)
(* through plans of up to MaxTotalOps operations.  SpecManifest is         *)
(* Manifest::from_file_list with the workers of its pool.  SpecCaching is  *)
(* the CachingChunkProvider of provider.rs: its thread and one caller of   *)
(* get_chunk; SpecCachingDrop adds the drop of the provider.  SpecSender   *)
(* is Sender::listen of src/src/process/sender.rs over its socket.         *)
(* SpecPack is the PackDownloader of network.rs: its download              *)
(* thread and the thread that owns it.  SpecRemote and SpecRemoteGet are   *)
(* RemoteManifest::with_pack_size and RemoteChunkProvider (new, set_plan,  *)
(* get_chunk) of network.rs.  Each specification keeps the variables of    *)
(* the others at rest.                                                     *)
(***************************************************************************)
EXTENDS Integers, Sequences, FiniteSets, TLC

\* ------------------------------------------------------------------ bounds

\* Longest content of the first file (source side and destination side).
MaxFileLen == 3

\* Longest content of the second file.
MaxTailLen == 1

\* Chunker parameters, scaled down from 32 KiB / 128 KiB.
MIN_CHUNK == 1
MAX_CHUNK == 2

\* Byte values; TailBytes are those of the second file.
Bytes == {0, 1}
TailBytes == {0}

\* The manifest's paths, in ascending order, each with its parent directory.
Paths == <<"a/f", "b/g">>
ParentOf(path) == IF path = "a/f" THEN "a" ELSE "b"

\* The content of a path that does not exist (no byte sequence).
NoFile == <<-1>>

SeqsUpTo(S, n) == UNION {[1..k -> S] : k \in 0..n}

ContentsOf(i) ==
    IF i = 1 THEN SeqsUpTo(Bytes, MaxFileLen) ELSE SeqsUpTo(TailBytes, MaxTailLen)

\* ----------------------------------------------------- chunker and hasher

\* The gear-hash cut condition: it depends on the content only.
IsCutPoint(byte) == byte = 0

SetMin(S) == CHOOSE x \in S : \A y \in S : x <= y

\* Length of the chunk that starts at offset start (0-based) of contents.
CutLength(contents, start) ==
    LET remaining == Len(contents) - start
        limit == IF remaining < MAX_CHUNK THEN remaining ELSE MAX_CHUNK
        cuts == {n \in MIN_CHUNK..limit : IsCutPoint(contents[start + n])}
    IN  IF remaining <= MIN_CHUNK THEN remaining
        ELSE IF cuts # {} THEN SetMin(cuts) ELSE limit

\* FastCDC::new(&contents, MIN_CHUNK, AVG_CHUNK, MAX_CHUNK) as a sequence
\* of {offset, length} entries covering contents from offset start.
RECURSIVE FastCDC(_, _)
FastCDC(contents, start) ==
    IF Len(contents) - start <= 0 THEN <<>>
    ELSE LET len == CutLength(contents, start)
         IN  <<[offset |-> start, length |-> len]>> \o FastCDC(contents, start + len)

\* contents[offset .. offset + length), offsets 0-based.
Slice(contents, offset, length) == SubSeq(contents, offset + 1, offset + length)

\* u64::from_le_bytes(md5(data)[0..8]): an injective numbering (the digits
\* 1..Cardinality(Bytes) in base HashBase).
HashBase == Cardinality(Bytes) + 1

RECURSIVE HashOf(_)
HashOf(data) ==
    IF data = <<>> THEN 0
    ELSE (data[1] + 1) + HashBase * HashOf(Tail(data))

\* The chunk list of one file: FastCDC entries with the hash of their bytes.
ChunkList(contents) ==
    LET cdc == FastCDC(contents, 0)
    IN  [k \in 1..Len(cdc) |->
            [hash |-> HashOf(Slice(contents, cdc[k].offset, cdc[k].length)),
             offset |-> cdc[k].offset,
             length |-> cdc[k].length]]

\* Manifest::from_file_list: one FileChunkInfo per file, sorted by path.
ManifestOf(src) ==
    [i \in 1..Len(Paths) |-> [path |-> Paths[i], chunks |-> ChunkList(src[Paths[i]])]]

\* ------------------------------------------------------------------ maps

EmptyMap == [k \in {} |-> 0]

\* HashMap::insert: a later insert under the same key replaces the entry.
MapInsert(m, k, v) == [x \in (DOMAIN m) \cup {k} |-> IF x = k THEN v ELSE m[x]]

\* ---------------------------------------------------------------- planner

PathExists(d, path) == d[path] # NoFile

\* A planner that keeps the first destination chunk seen under a hash
\* (entry().or_insert instead of insert).
RECURSIVE HaveLoopKeepFirst(_, _, _)
HaveLoopKeepFirst(chunks, k, have) ==
    IF k > Len(chunks) THEN have
    ELSE HaveLoopKeepFirst(chunks, k + 1,
                           IF chunks[k].hash \in DOMAIN have THEN have
                           ELSE MapInsert(have, chunks[k].hash,
                                          [offset |-> chunks[k].offset,
                                           length |-> chunks[k].length]))

\* have_chunks of plan(): hash -> FastCDC entry of the destination file,
\* entries inserted left to right.
RECURSIVE HaveLoop(_, _, _)
HaveLoop(chunks, k, have) ==
    IF k > Len(chunks) THEN have
    ELSE HaveLoop(chunks, k + 1,
                  MapInsert(have, chunks[k].hash,
                            [offset |-> chunks[k].offset, length |-> chunks[k].length]))

HaveChunks(d, path) ==
    IF PathExists(d, path) THEN HaveLoop(ChunkList(d[path]), 1, EmptyMap) ELSE EmptyMap

\* entry == chunk: a FastCDC entry against a manifest chunk.
ChunkEq(entry, chunk) == entry.offset = chunk.offset /\ entry.length = chunk.length

Seek(len) == [kind |-> "Seek", hash |-> 0, offset |-> 0, length |-> len]
Copy(hash, offset, length) ==
    [kind |-> "Copy", hash |-> hash, offset |-> offset, length |-> length]
Fetch(hash, offset, length) ==
    [kind |-> "Fetch", hash |-> hash, offset |-> offset, length |-> length]

\* A planner whose Fetch takes its offset and length from the default chunk
\* instead of the manifest chunk.
OperationForNoOffset(have, chunk) ==
    IF chunk.hash \in DOMAIN have
    THEN IF ChunkEq(have[chunk.hash], chunk)
         THEN Seek(have[chunk.hash].length)
         ELSE Copy(chunk.hash, have[chunk.hash].offset, have[chunk.hash].length)
    ELSE Fetch(chunk.hash, 0, chunk.length)

\* The match on have_chunks.get(&chunk.hash) for one manifest chunk.
OperationFor(have, chunk) ==
    IF chunk.hash \in DOMAIN have
    THEN IF ChunkEq(have[chunk.hash], chunk)
         THEN Seek(have[chunk.hash].length)
         ELSE Copy(chunk.hash, have[chunk.hash].offset, have[chunk.hash].length)
    ELSE Fetch(chunk.hash, chunk.offset, chunk.length)

\* The operations computed for one manifest file.
FileOperations(d, info) ==
    LET have == HaveChunks(d, info.path)
    IN  [k \in 1..Len(info.chunks) |-> OperationFor(have, info.chunks[k])]

ShouldSkip(operations) ==
    ~ \E k \in 1..Len(operations) : operations[k].kind \in {"Copy", "Fetch"}

EmptyPlan == [operations |-> <<>>, total_ops |-> 0]

\* The loop of plan() over manifest.files from file i on.
RECURSIVE PlanLoop(_, _, _, _, _)
PlanLoop(manifest, d, i, p, total_ops) ==
    IF i > Len(manifest) THEN p
    ELSE LET info == manifest[i]
             operations == FileOperations(d, info)
             total == total_ops + Len(info.chunks)
         IN  IF ~ShouldSkip(operations)
             THEN PlanLoop(manifest, d, i + 1,
                           [operations |-> Append(p.operations, <<info.path, operations>>),
                            total_ops |-> total],
                           total)
             ELSE PlanLoop(manifest, d, i + 1, p, total)

PlanOf(manifest, d) == PlanLoop(manifest, d, 1, EmptyPlan, 0)

\* --------------------------------------------------------------- provider

\* convert_manifest_to_map: hash -> (file, offset, length) over all chunks of
\* all files of the manifest, a later chunk replacing an earlier one.
RECURSIVE IndexChunks(_, _, _, _)
IndexChunks(path, chunks, k, index) ==
    IF k > Len(chunks) THEN index
    ELSE IndexChunks(path, chunks, k + 1,
                     MapInsert(index, chunks[k].hash,
                               [file |-> path, offset |-> chunks[k].offset,
                                length |-> chunks[k].length]))

RECURSIVE IndexFiles(_, _, _)
IndexFiles(manifest, i, index) ==
    IF i > Len(manifest) THEN index
    ELSE IndexFiles(manifest, i + 1,
                    IndexChunks(manifest[i].path, manifest[i].chunks, 1, index))

ProviderIndex(src) == IndexFiles(ManifestOf(src), 1, EmptyMap)

\* BasicChunkProvider::get_chunk over the tree src the provider was built
\* with: an empty Vec for a key the index does not hold, else the bytes read
\* at the indexed place of the file.
GetChunk(src, key) ==
    IF key \notin DOMAIN ProviderIndex(src) THEN <<>>
    ELSE LET info == ProviderIndex(src)[key]
         IN  Slice(src[info.file], info.offset, info.length)

\* ------------------------------------------------------------ file system

\* write_all(data) at position pos of a file holding content.
WriteAt(content, pos, data) ==
    LET end == pos + Len(data)
        newLen == IF end > Len(content) THEN end ELSE Len(content)
    IN  [k \in 1..newLen |->
            IF k > pos /\ k <= end THEN data[k - pos]
            ELSE IF k <= Len(content) THEN content[k] ELSE 0]

\* File::set_len(n): cut, or extend with zero bytes.
SetLen(content, n) == [k \in 1..n |-> IF k <= Len(content) THEN content[k] ELSE 0]

\* read_exact of length bytes at offset succeeds.
CanRead(content, offset, length) == offset + length <= Len(content)

\* ------------------------------------------------------- f32 arithmetic

RECURSIVE Pow2(_)
Pow2(n) == IF n = 0 THEN 1 ELSE 2 * Pow2(n - 1)

\* The bits of an f32 significand.
MantissaBits == 24

\* An integer m and a remainder (twice the remainder against twice the
\* divisor, or the cut bits against half) rounded to nearest, ties to even.
RoundEven(m, rem2, whole) ==
    IF rem2 > whole \/ (rem2 = whole /\ m % 2 = 1) THEN m + 1 ELSE m

\* The smallest j with k * 2^j >= n (for 0 < k).
RECURSIVE ShiftFor(_, _, _)
ShiftFor(k, n, j) == IF k >= n THEN j ELSE ShiftFor(2 * k, n, j + 1)

\* Long division: the next `bits` bits of r / n after the bits in m.
RECURSIVE DivBits(_, _, _, _)
DivBits(m, r, n, bits) ==
    IF bits = 0 THEN [m |-> m, r |-> r]
    ELSE IF 2 * r >= n
         THEN DivBits(2 * m + 1, 2 * r - n, n, bits - 1)
         ELSE DivBits(2 * m, 2 * r, n, bits - 1)

\* The number of low bits to cut from p to leave MantissaBits bits.
RECURSIVE ExtraBits(_, _)
ExtraBits(p, s) ==
    IF p \div Pow2(s) < Pow2(MantissaBits) THEN s ELSE ExtraBits(p, s + 1)

\* ((ops_completed as f32 / total_ops as f32) * 100.0) as u32, for
\* 0 < k <= n < 2^24: the quotient is rounded to an f32 (significand m,
\* exponent -(j + 23)), the product with 100 is rounded to an f32 again,
\* and the cast drops the fraction.
Percent(k, n) ==
    LET j == ShiftFor(k, n, 0)
        d == DivBits(1, k * Pow2(j) - n, n, MantissaBits - 1)
        m == RoundEven(d.m, 2 * d.r, n)
        p == m * 100
        s == ExtraBits(p, 0)
        cut == Pow2(s)
        pm == RoundEven(p \div cut, 2 * (p % cut), cut)
    IN  (pm * cut) \div Pow2(j + MantissaBits - 1)

\* ------------------------------------------------------------------ state

VARIABLES
    source,     \* the source tree: path -> content (what the manifest was built from)
    dest,       \* the destination tree: path -> content, or NoFile
    dirs,       \* the destination directories that exist
    pc,         \* where sync() stands: idle, set_plan, open, preload, write,
                \* truncate, done (returned Ok), failed (returned Err)
    plan,       \* the SyncPlan of the current run
    fi,         \* index of the current entry of plan.operations
    oi,         \* index of the current operation of that entry
    cursor,     \* the position of the writer in the current file
    have,       \* have_chunks of sync_from_plan: hash -> pre-loaded bytes
    calls,      \* the calls made to the provider in the current run, in order
    dest0,      \* the destination tree when the current run started
    prevOk,     \* the run before the current one returned Ok
    aborted,    \* some run so far returned Err after it started to execute
    ops_completed, \* u32 counter of the operations executed in the current run
    progress,   \* the values the progress callback received in the current run
    ptree       \* the tree (path and manifest) the chunk provider was built with

\* The state of a CachingChunkProvider, of its thread and of its caller.
VARIABLES
    cchunks,    \* chunks: hash -> bytes read into memory
    cjobs,      \* the keys of jobs: the chunks not yet announced
    cflag,      \* hash -> the bool under the Mutex of the job's pair
    todo,       \* to_fetch, less the entries the thread has taken
    wpc,        \* the thread: next (top of the loop), notify, exited
    wkey,       \* the hash the thread is at
    cplan,      \* the keys the caller asks for, one get_chunk after another
    ci,         \* the number of get_chunk calls that returned
    cpc,        \* the caller: idle, miss, pair, waiting
    cwoken,     \* the waiting caller was woken
    cres        \* what the get_chunk calls returned, in order

syncVars == <<source, dest, dirs, pc, plan, fi, oi, cursor, have, calls, dest0,
              prevOk, aborted, ops_completed, progress, ptree>>

cachingVars == <<cchunks, cjobs, cflag, todo, wpc, wkey, cplan, ci, cpc, cwoken,
                 cres>>

\* The state of a PackDownloader, of its thread and of the thread that owns it.
VARIABLES
    chan,         \* the mpsc channel: the PackMessages sent and not yet received
    queue,        \* inner.queue: the pack ids to fetch, front first
    packs,        \* inner.packs: the ids of the packs fetched and not yet moved
    lock,         \* who holds the Mutex of inner: none, worker, main
    dpc,          \* the thread: top, drain, lock, operate, fetch, notify,
                  \* notify_failed, exited
    dfetch,       \* the pack id of the request in flight
    dfailed,      \* a request of the thread has failed
    cache,        \* the ids of the packs of the owner's cache
    cache_size,   \* u64 counter
    queued_size,  \* u64 counter
    mpc,          \* the owner: idle, locking, check, waiting, joining, dropped,
                  \* panicked
    mcall,        \* the owner's last call: [op, id]
    mops,         \* the number of calls the owner has made
    mwoken,       \* the waiting owner was woken
    release,      \* the build wraps on integer overflow (else it panics)
    cache_limit   \* the limit with_size was given

packVars == <<chan, queue, packs, lock, dpc, dfetch, dfailed, cache, cache_size,
              queued_size, mpc, mcall, mops, mwoken, release, cache_limit>>

\* The state of Manifest::from_file_list and of the workers of its pool.
VARIABLES
    flist,      \* file_list.files: indexes into Paths, in the order of the list
    jobs,       \* the closures handed to the pool and not yet taken
    running,    \* worker -> the file it is chunking (0: none)
    files,      \* manifest.files under the Mutex, in the order of the pushes
    bpc,        \* from_file_list: off, pool (workers run), returned
    result      \* the Manifest returned (its files)

manifestVars == <<flist, jobs, running, files, bpc, result>>

\* The state of a RemoteManifest and of the RemoteChunkProvider built on it.
VARIABLES
    psize,      \* the pack size with_pack_size is given
    rpacks,     \* RemoteManifest.packs
    chunk_map,  \* RemoteChunkProvider.chunk_map: chunk id -> ChunkPackInfo
    rpc,        \* off, manifest, packed, provider, set_plan, ready, failed
    to_cache,   \* packs_to_cache of set_plan, less the entries already visited
    pdata,      \* the bytes of the packs in the downloader's cache
    rgets,      \* the number of get_chunk calls made
    rres        \* what the last get_chunk call returned

remoteVars == <<psize, rpacks, chunk_map, rpc, to_cache, pdata, rgets, rres>>

\* The state of a Sender in listen and of its socket.
VARIABLES
    arrivals,   \* the Messages the socket delivers, in arrival order
    recvs,      \* the number of Messages receive has returned
    sent,       \* the messages send has been given and has sent, in order
    spc         \* off, recv, hello, file_list, deltas, file_end, ok, err, panicked

senderVars == <<arrivals, recvs, sent, spc>>

\* What the sections on the executor, the caching provider and the pack
\* downloader leave alone.
restVars == <<manifestVars, remoteVars, senderVars>>

vars == <<syncVars, cachingVars, packVars, restVars>>

\* What no step of sync() writes.
fixed == <<source, ptree, cachingVars, packVars, restVars>>

\* The threads of the pool of from_file_list.
PoolSize == 4
Workers == 1..PoolSize

\* from_file_list is not running.
NoManifest ==
    /\ flist = <<>>
    /\ jobs = <<>>
    /\ running = [w \in Workers |-> 0]
    /\ files = <<>>
    /\ bpc = "off"
    /\ result = <<>>

\* No RemoteManifest and no RemoteChunkProvider were built.
NoRemote ==
    /\ psize = 0
    /\ rpacks = <<>>
    /\ chunk_map = EmptyMap
    /\ rpc = "off"
    /\ to_cache = {}
    /\ pdata = EmptyMap
    /\ rgets = 0
    /\ rres = [kind |-> "none"]

\* No Sender listens.
NoSender ==
    /\ arrivals = <<>>
    /\ recvs = 0
    /\ sent = <<>>
    /\ spc = "off"

NoRest == NoManifest /\ NoRemote /\ NoSender

\* A Syncer that has not run (the fields that are not trees).
SyncerNew ==
    /\ pc = "idle"
    /\ plan = EmptyPlan
    /\ fi = 0
    /\ oi = 0
    /\ cursor = 0
    /\ have = EmptyMap
    /\ calls = <<>>
    /\ prevOk = FALSE
    /\ aborted = FALSE
    /\ ops_completed = 0
    /\ progress = <<>>

\* A Syncer that has not run, over empty trees.
NoSyncTree ==
    /\ source = [path \in {Paths[i] : i \in 1..Len(Paths)} |-> <<>>]
    /\ ptree = source
    /\ dest = [path \in {Paths[i] : i \in 1..Len(Paths)} |-> NoFile]
    /\ dirs = {}
    /\ fi = 0
    /\ oi = 0
    /\ cursor = 0
    /\ have = EmptyMap
    /\ calls = <<>>
    /\ dest0 = dest
    /\ prevOk = FALSE
    /\ aborted = FALSE
    /\ ops_completed = 0
    /\ progress = <<>>

\* No PackDownloader was built.
NoPack ==
    /\ chan = <<>>
    /\ queue = <<>>
    /\ packs = <<>>
    /\ lock = "none"
    /\ dpc = "exited"
    /\ dfetch = 0
    /\ dfailed = FALSE
    /\ cache = {}
    /\ cache_size = 0
    /\ queued_size = 0
    /\ mpc = "dropped"
    /\ mcall = [op |-> "none", id |-> 0]
    /\ mops = 0
    /\ mwoken = FALSE
    /\ release = FALSE
    /\ cache_limit = 0

\* No CachingChunkProvider was built.
NoCaching ==
    /\ cchunks = EmptyMap
    /\ cjobs = {}
    /\ cflag = EmptyMap
    /\ todo = EmptyMap
    /\ wpc = "exited"
    /\ wkey = 0
    /\ cplan = <<>>
    /\ ci = 0
    /\ cpc = "idle"
    /\ cwoken = FALSE
    /\ cres = <<>>

Dirs == {ParentOf(Paths[i]) : i \in 1..Len(Paths)}

Init ==
    /\ \E s1 \in ContentsOf(1), s2 \in ContentsOf(2) :
           source = (Paths[1] :> s1) @@ (Paths[2] :> s2)
    /\ \E d1 \in ContentsOf(1) \cup {NoFile}, d2 \in ContentsOf(2) \cup {NoFile} :
           dest = (Paths[1] :> d1) @@ (Paths[2] :> d2)
    /\ dirs \in SUBSET Dirs
    /\ \A i \in 1..Len(Paths) : dest[Paths[i]] # NoFile => ParentOf(Paths[i]) \in dirs
    /\ pc = "idle"
    /\ plan = EmptyPlan
    /\ fi = 0
    /\ oi = 0
    /\ cursor = 0
    /\ have = EmptyMap
    /\ calls = <<>>
    /\ dest0 = dest
    /\ prevOk = FALSE
    /\ aborted = FALSE
    /\ ops_completed = 0
    /\ progress = <<>>
    /\ ptree = source
    /\ NoCaching
    /\ NoPack
    /\ NoRest

CurPath == plan.operations[fi][1]
CurOps == plan.operations[fi][2]
CurOp == CurOps[oi]

\* --------------------------------------------------------------- executor

\* A planner that opens the files of the manifest with create(true): a
\* missing file whose directory exists is left behind empty.
StartSyncCreating ==
    /\ pc \in {"idle", "done", "failed"}
    /\ plan' = PlanOf(ManifestOf(source), dest)
    /\ dest' = [p \in DOMAIN dest |->
                   IF dest[p] = NoFile /\ ParentOf(p) \in dirs THEN <<>> ELSE dest[p]]
    /\ pc' = "set_plan"
    /\ fi' = 0
    /\ oi' = 0
    /\ cursor' = 0
    /\ have' = EmptyMap
    /\ calls' = <<>>
    /\ dest0' = dest
    /\ prevOk' = (pc = "done")
    /\ ops_completed' = 0
    /\ progress' = <<>>
    /\ UNCHANGED <<fixed, dirs, aborted>>

\* sync(): plan() returned Ok(plan); sync_from_plan starts.
StartSync ==
    /\ pc \in {"idle", "done", "failed"}
    /\ plan' = PlanOf(ManifestOf(source), dest)
    /\ pc' = "set_plan"
    /\ fi' = 0
    /\ oi' = 0
    /\ cursor' = 0
    /\ have' = EmptyMap
    /\ calls' = <<>>
    /\ dest0' = dest
    /\ prevOk' = (pc = "done")
    /\ ops_completed' = 0
    /\ progress' = <<>>
    /\ UNCHANGED <<fixed, dest, dirs, aborted>>

\* sync(): plan() failed to open or read an existing destination file.
PlanFails ==
    /\ pc \in {"idle", "done", "failed"}
    /\ \E i \in 1..Len(Paths) : PathExists(dest, Paths[i])
    /\ pc' = "failed"
    /\ plan' = EmptyPlan
    /\ fi' = 0
    /\ oi' = 0
    /\ cursor' = 0
    /\ have' = EmptyMap
    /\ calls' = <<>>
    /\ dest0' = dest
    /\ prevOk' = (pc = "done")
    /\ ops_completed' = 0
    /\ progress' = <<>>
    /\ UNCHANGED <<fixed, dest, dirs, aborted>>

\* An executor that starts its loop without the call of set_plan.
SetPlanSkipped ==
    /\ pc = "set_plan"
    /\ IF plan.operations = <<>>
       THEN pc' = "done" /\ fi' = fi
       ELSE pc' = "open" /\ fi' = 1
    /\ UNCHANGED <<fixed, dest, dirs, plan, oi, cursor, have, calls, dest0, prevOk,
                   aborted,
                   ops_completed, progress>>

\* self.provider.set_plan(&plan), then the loop over plan.operations begins.
SetPlan ==
    /\ pc = "set_plan"
    /\ calls' = Append(calls, <<"set_plan", 0>>)
    /\ IF plan.operations = <<>>
       THEN pc' = "done" /\ fi' = fi
       ELSE pc' = "open" /\ fi' = 1
    /\ UNCHANGED <<fixed, dest, dirs, plan, oi, cursor, have, dest0, prevOk, aborted,
                   ops_completed, progress>>

\* fs::create_dir_all(parent) and the open with read, write, create.
OpenFile ==
    /\ pc = "open"
    /\ dirs' = dirs \cup {ParentOf(CurPath)}
    /\ dest' = [dest EXCEPT ![CurPath] = IF @ = NoFile THEN <<>> ELSE @]
    /\ have' = EmptyMap
    /\ pc' = "preload"
    /\ UNCHANGED <<fixed, plan, fi, oi, cursor, calls, dest0, prevOk, aborted,
                   ops_completed, progress>>

\* create_dir_all succeeded and the open failed.
OpenFails ==
    /\ pc = "open"
    /\ dirs' = dirs \cup {ParentOf(CurPath)}
    /\ pc' = "failed"
    /\ aborted' = TRUE
    /\ UNCHANGED <<fixed, dest, plan, fi, oi, cursor, have, calls, dest0, prevOk,
                   ops_completed, progress>>

\* The first pass: every Copy range is read into have_chunks.
RECURSIVE PreloadLoop(_, _, _, _)
PreloadLoop(content, operations, k, loaded) ==
    IF k > Len(operations) THEN loaded
    ELSE IF operations[k].kind = "Copy"
         THEN PreloadLoop(content, operations, k + 1,
                          MapInsert(loaded, operations[k].hash,
                                    Slice(content, operations[k].offset,
                                          operations[k].length)))
         ELSE PreloadLoop(content, operations, k + 1, loaded)

PreloadReadable(content, operations) ==
    \A k \in 1..Len(operations) :
        operations[k].kind = "Copy" =>
            CanRead(content, operations[k].offset, operations[k].length)

Preload ==
    /\ pc = "preload"
    /\ PreloadReadable(dest[CurPath], CurOps)
    /\ have' = PreloadLoop(dest[CurPath], CurOps, 1, EmptyMap)
    /\ cursor' = 0
    /\ IF CurOps = <<>>
       THEN pc' = "truncate" /\ oi' = 0
       ELSE pc' = "write" /\ oi' = 1
    /\ UNCHANGED <<fixed, dest, dirs, plan, fi, calls, dest0, prevOk, aborted,
                   ops_completed, progress>>

\* The step after an operation of the write pass: the counter goes up by
\* one, the callback receives the percentage, the loop goes on.
Advance ==
    /\ ops_completed' = ops_completed + 1
    /\ progress' = Append(progress, Percent(ops_completed + 1, plan.total_ops))
    /\ IF oi = Len(CurOps)
       THEN pc' = "truncate" /\ oi' = oi
       ELSE pc' = "write" /\ oi' = oi + 1

\* An executor whose Seek positions the writer from the start of the file.
ExecSeekFromStart ==
    /\ pc = "write"
    /\ CurOp.kind = "Seek"
    /\ cursor' = CurOp.length
    /\ Advance
    /\ UNCHANGED <<fixed, dest, dirs, plan, fi, have, calls, dest0, prevOk, aborted>>

\* Operation::Seek(len): writer.seek(SeekFrom::Current(len)).
ExecSeek ==
    /\ pc = "write"
    /\ CurOp.kind = "Seek"
    /\ cursor' = cursor + CurOp.length
    /\ Advance
    /\ UNCHANGED <<fixed, dest, dirs, plan, fi, have, calls, dest0, prevOk, aborted>>

\* An executor that asks the provider for the bytes of a Copy as well.
ExecCopyViaProvider ==
    /\ pc = "write"
    /\ CurOp.kind = "Copy"
    /\ CurOp.hash \in DOMAIN have
    /\ calls' = Append(calls, <<"get_chunk", CurOp.hash>>)
    /\ dest' = [dest EXCEPT ![CurPath] = WriteAt(@, cursor, have[CurOp.hash])]
    /\ cursor' = cursor + Len(have[CurOp.hash])
    /\ Advance
    /\ UNCHANGED <<fixed, dirs, plan, fi, have, dest0, prevOk, aborted>>

\* An executor that reads the range of a Copy from the file at the moment of
\* the write instead of taking the pre-loaded bytes.
ExecCopyFromFile ==
    /\ pc = "write"
    /\ CurOp.kind = "Copy"
    /\ CurOp.hash \in DOMAIN have
    /\ LET data == Slice(dest[CurPath], CurOp.offset, CurOp.length)
       IN  /\ dest' = [dest EXCEPT ![CurPath] = WriteAt(@, cursor, data)]
           /\ cursor' = cursor + Len(data)
    /\ Advance
    /\ UNCHANGED <<fixed, dirs, plan, fi, have, calls, dest0, prevOk, aborted>>

\* Operation::Copy(chunk): the pre-loaded bytes are written.
ExecCopy ==
    /\ pc = "write"
    /\ CurOp.kind = "Copy"
    /\ CurOp.hash \in DOMAIN have
    /\ dest' = [dest EXCEPT ![CurPath] = WriteAt(@, cursor, have[CurOp.hash])]
    /\ cursor' = cursor + Len(have[CurOp.hash])
    /\ Advance
    /\ UNCHANGED <<fixed, dirs, plan, fi, have, calls, dest0, prevOk, aborted>>

\* Operation::Fetch(chunk): the bytes the provider returns are written.
ExecFetch ==
    /\ pc = "write"
    /\ CurOp.kind = "Fetch"
    /\ calls' = Append(calls, <<"get_chunk", CurOp.hash>>)
    /\ LET data == GetChunk(ptree, CurOp.hash)
       IN  /\ dest' = [dest EXCEPT ![CurPath] = WriteAt(@, cursor, data)]
           /\ cursor' = cursor + Len(data)
    /\ Advance
    /\ UNCHANGED <<fixed, dirs, plan, fi, have, dest0, prevOk, aborted>>

\* Operation::Fetch(chunk): provider.get_chunk returned Err.
FetchFails ==
    /\ pc = "write"
    /\ CurOp.kind = "Fetch"
    /\ calls' = Append(calls, <<"get_chunk", CurOp.hash>>)
    /\ pc' = "failed"
    /\ aborted' = TRUE
    /\ UNCHANGED <<fixed, dest, dirs, plan, fi, oi, cursor, have, dest0, prevOk,
                   ops_completed, progress>>

\* The position of the writer is read and the file is cut to it; the loop
\* goes to the next entry of the plan, or sync_from_plan returns Ok.
Truncate ==
    /\ pc = "truncate"
    /\ dest' = [dest EXCEPT ![CurPath] = SetLen(@, cursor)]
    /\ IF fi < Len(plan.operations)
       THEN pc' = "open" /\ fi' = fi + 1
       ELSE pc' = "done" /\ fi' = fi
    /\ UNCHANGED <<fixed, dirs, plan, oi, cursor, have, calls, dest0, prevOk, aborted,
                   ops_completed, progress>>

\* An executor that cuts the file to the writer's position before it returns
\* the error of a failed I/O call.
IoErrorTruncates ==
    /\ pc \in {"open", "preload", "write", "truncate"}
    /\ pc' = "failed"
    /\ aborted' = TRUE
    /\ dest' = [dest EXCEPT ![CurPath] = IF @ = NoFile THEN @ ELSE SetLen(@, cursor)]
    /\ UNCHANGED <<fixed, dirs, plan, fi, oi, cursor, have, calls, dest0, prevOk,
                   ops_completed, progress>>

\* An I/O call of the current step (create_dir_all, a pre-load seek or read,
\* a seek, a write, set_len) returned an error: `?` returns it at once.
IoError ==
    /\ pc \in {"open", "preload", "write", "truncate"}
    /\ pc' = "failed"
    /\ aborted' = TRUE
    /\ UNCHANGED <<fixed, dest, dirs, plan, fi, oi, cursor, have, calls, dest0, prevOk,
                   ops_completed, progress>>

Next ==
    \/ StartSync
    \/ PlanFails
    \/ SetPlan
    \/ OpenFile
    \/ OpenFails
    \/ Preload
    \/ ExecSeek
    \/ ExecCopy
    \/ ExecFetch
    \/ FetchFails
    \/ Truncate
    \/ IoError

Spec == Init /\ [][Next]_vars

\* sync() into a fresh destination with a provider that was built with a
\* tree (path and manifest) of its own: BasicChunkProvider::new takes them
\* apart from the manifest the Syncer is given.
InitStale ==
    /\ \E s1 \in ContentsOf(1), s2 \in ContentsOf(2) :
           source = (Paths[1] :> s1) @@ (Paths[2] :> s2)
    /\ \E p1 \in ContentsOf(1), p2 \in ContentsOf(2) :
           ptree = (Paths[1] :> p1) @@ (Paths[2] :> p2)
    /\ dest = [path \in {Paths[i] : i \in 1..Len(Paths)} |-> NoFile]
    /\ dirs \in SUBSET Dirs
    /\ pc = "idle"
    /\ plan = EmptyPlan
    /\ fi = 0
    /\ oi = 0
    /\ cursor = 0
    /\ have = EmptyMap
    /\ calls = <<>>
    /\ dest0 = dest
    /\ prevOk = FALSE
    /\ aborted = FALSE
    /\ ops_completed = 0
    /\ progress = <<>>
    /\ NoCaching
    /\ NoPack
    /\ NoRest

SpecStale == InitStale /\ [][Next]_vars

\* ------------------------------------------------------ progress of a run

\* The most operations a plan counts.
MaxTotalOps == 100

\* sync_from_plan at the start of a plan that counts total_ops operations;
\* of the run only the counter and the callback are followed.
InitProgress ==
    /\ NoSyncTree
    /\ pc = "progress"
    /\ \E n \in 1..MaxTotalOps : plan = [operations |-> <<>>, total_ops |-> n]
    /\ NoCaching
    /\ NoPack
    /\ NoRest

\* The end of one pass of the write loop: ops_completed + 1 and the call of
\* the callback.
ReportProgress ==
    /\ pc = "progress"
    /\ ops_completed < plan.total_ops
    /\ ops_completed' = ops_completed + 1
    /\ progress' = Append(progress, Percent(ops_completed + 1, plan.total_ops))
    /\ UNCHANGED <<fixed, dest, dirs, pc, plan, fi, oi, cursor, have, calls, dest0,
                   prevOk, aborted>>

NextProgress == ReportProgress

SpecProgress == InitProgress /\ [][NextProgress]_vars

\* ----------------------------------------------------- manifest builder

\* The file lists handed to from_file_list: every listing of some of the
\* files of the tree, each file once, in any order.
FileLists ==
    {l \in SeqsUpTo(1..Len(Paths), Len(Paths)) :
        \A i, j \in 1..Len(l) : i # j => l[i] # l[j]}

\* Manifest::from_file_list: the pool is built and one closure per listed
\* file is handed to it.
InitManifest ==
    /\ \E s1 \in ContentsOf(1), s2 \in ContentsOf(2) :
           source = (Paths[1] :> s1) @@ (Paths[2] :> s2)
    /\ ptree = source
    /\ dest = [path \in {Paths[i] : i \in 1..Len(Paths)} |-> NoFile]
    /\ dirs = {}
    /\ dest0 = dest
    /\ SyncerNew
    /\ NoCaching
    /\ NoPack
    /\ NoRemote
    /\ NoSender
    /\ flist \in FileLists
    /\ jobs = flist
    /\ running = [w \in Workers |-> 0]
    /\ files = <<>>
    /\ bpc = "pool"
    /\ result = <<>>

\* A worker of the pool that has nothing to do takes the closure at the
\* front of the pool's queue.
PoolTake(w) ==
    /\ bpc = "pool"
    /\ running[w] = 0
    /\ jobs # <<>>
    /\ running' = [running EXCEPT ![w] = Head(jobs)]
    /\ jobs' = Tail(jobs)
    /\ UNCHANGED <<syncVars, cachingVars, packVars, remoteVars, senderVars, flist, files, bpc, result>>

\* The closure: the file is read and chunked, then its FileChunkInfo is
\* pushed to manifest.files under the lock.
ChunkFile(w) ==
    /\ bpc = "pool"
    /\ running[w] # 0
    /\ LET path == Paths[running[w]]
           file_chunk_info == [path |-> path, chunks |-> ChunkList(source[path])]
       IN  files' = Append(files, file_chunk_info)
    /\ running' = [running EXCEPT ![w] = 0]
    /\ UNCHANGED <<syncVars, cachingVars, packVars, remoteVars, senderVars, flist, jobs, bpc, result>>

\* drop(pool) has returned: every closure handed to the pool has run.
PoolDrained == jobs = <<>> /\ \A w \in Workers : running[w] = 0

\* The position of a path in the order of the paths.
PathRank(path) == CHOOSE i \in 1..Len(Paths) : Paths[i] = path

\* One entry put into a list sorted by path, after the entries whose path
\* is not greater.
RECURSIVE InsertByPath(_, _)
InsertByPath(sorted, info) ==
    IF sorted = <<>> THEN <<info>>
    ELSE IF PathRank(Head(sorted).path) <= PathRank(info.path)
         THEN <<Head(sorted)>> \o InsertByPath(Tail(sorted), info)
         ELSE <<info>> \o sorted

\* files.sort_by_cached_key(|k| k.path.clone()): a stable sort by path.
RECURSIVE SortByPath(_)
SortByPath(list) ==
    IF list = <<>> THEN <<>>
    ELSE InsertByPath(SortByPath(SubSeq(list, 1, Len(list) - 1)), list[Len(list)])

\* A builder that returns the files in the order of the pushes.
SortAndReturnNoSort ==
    /\ bpc = "pool"
    /\ PoolDrained
    /\ result' = files
    /\ bpc' = "returned"
    /\ UNCHANGED <<syncVars, cachingVars, packVars, remoteVars, senderVars, flist, jobs, running, files>>

\* After the pool is dropped the Manifest is taken out of the Arc and the
\* Mutex, its files are sorted by path, and it is returned.
SortAndReturn ==
    /\ bpc = "pool"
    /\ PoolDrained
    /\ result' = SortByPath(files)
    /\ bpc' = "returned"
    /\ UNCHANGED <<syncVars, cachingVars, packVars, remoteVars, senderVars, flist, jobs, running, files>>

NextManifest ==
    \/ \E w \in Workers : PoolTake(w)
    \/ \E w \in Workers : ChunkFile(w)
    \/ SortAndReturn

SpecManifest == InitManifest /\ [][NextManifest]_vars

\* ------------------------------------------------ caching chunk provider

\* The most get_chunk calls one caller makes.
MaxCalls == 2

\* The keys of convert_manifest_to_map, and a key no manifest holds (every
\* chunk has at least one byte).
ManifestKeys == DOMAIN ProviderIndex(source)
AbsentKey == HashOf(<<>>)

\* CachingChunkProvider::new: a job per key of the manifest, an empty cache,
\* the thread spawned; the caller has get_chunk calls to make.
InitCaching ==
    /\ NoRest
    /\ \E s1 \in ContentsOf(1), s2 \in ContentsOf(2) :
           source = (Paths[1] :> s1) @@ (Paths[2] :> s2)
    /\ ptree = source
    /\ dest = [path \in {Paths[i] : i \in 1..Len(Paths)} |-> NoFile]
    /\ dirs = {}
    /\ pc = "idle"
    /\ plan = EmptyPlan
    /\ fi = 0
    /\ oi = 0
    /\ cursor = 0
    /\ have = EmptyMap
    /\ calls = <<>>
    /\ dest0 = dest
    /\ prevOk = FALSE
    /\ aborted = FALSE
    /\ ops_completed = 0
    /\ progress = <<>>
    /\ cchunks = EmptyMap
    /\ cjobs = ManifestKeys
    /\ cflag = [k \in ManifestKeys |-> FALSE]
    /\ todo = ProviderIndex(source)
    /\ wpc = "next"
    /\ wkey = 0
    /\ cplan \in SeqsUpTo(ManifestKeys \cup {AbsentKey}, MaxCalls)
    /\ ci = 0
    /\ cpc = "idle"
    /\ cwoken = FALSE
    /\ cres = <<>>
    /\ NoPack

\* The key of the get_chunk call in progress (or of the next one).
CKey == cplan[ci + 1]

\* The thread takes the next entry of to_fetch (a HashMap: any order), reads
\* the chunk from its file and inserts it under the chunks lock.
WorkerInsert ==
    /\ wpc = "next"
    /\ \E h \in DOMAIN todo :
           /\ todo' = [k \in DOMAIN todo \ {h} |-> todo[k]]
           /\ wkey' = h
           /\ cchunks' = MapInsert(cchunks, h,
                                   Slice(source[todo[h].file], todo[h].offset,
                                         todo[h].length))
    /\ wpc' = "notify"
    /\ UNCHANGED <<syncVars, packVars, restVars, cjobs, cflag, cplan, ci, cpc, cwoken, cres>>

\* The thread removes the job under the jobs lock, sets the bool of its pair
\* and notifies whoever waits on the pair's Condvar at that moment.
WorkerNotify ==
    /\ wpc = "notify"
    /\ IF wkey \in cjobs
       THEN /\ cjobs' = cjobs \ {wkey}
            /\ cflag' = [cflag EXCEPT ![wkey] = TRUE]
            /\ cwoken' = (cwoken \/ (cpc = "waiting" /\ CKey = wkey))
       ELSE UNCHANGED <<cjobs, cflag, cwoken>>
    /\ wpc' = "next"
    /\ UNCHANGED <<syncVars, packVars, restVars, cchunks, todo, wkey, cplan, ci, cpc, cres>>

\* A thread that ends only when every planned get_chunk call has been made.
WorkerExitWhenServed ==
    /\ wpc = "next"
    /\ todo = EmptyMap
    /\ ci = Len(cplan)
    /\ wpc' = "exited"
    /\ UNCHANGED <<syncVars, packVars, restVars, cchunks, cjobs, cflag, todo, wkey, cplan, ci, cpc,
                   cwoken, cres>>

\* The loop over to_fetch is over: the thread ends.
WorkerExit ==
    /\ wpc = "next"
    /\ todo = EmptyMap
    /\ wpc' = "exited"
    /\ UNCHANGED <<syncVars, packVars, restVars, cchunks, cjobs, cflag, todo, wkey, cplan, ci, cpc,
                   cwoken, cres>>

\* get_chunk returns data to its caller.
CachingReturn(data) ==
    /\ cres' = Append(cres, data)
    /\ ci' = ci + 1
    /\ cpc' = "idle"

\* get_chunk(key): the cache is read under the chunks lock.
CachingGetChunk ==
    /\ cpc = "idle"
    /\ ci < Len(cplan)
    /\ IF CKey \in DOMAIN cchunks
       THEN CachingReturn(cchunks[CKey])
       ELSE /\ cpc' = "miss"
            /\ UNCHANGED <<ci, cres>>
    /\ UNCHANGED <<syncVars, packVars, restVars, cchunks, cjobs, cflag, todo, wpc, wkey, cplan, cwoken>>

\* get_chunk after a miss: the job's pair is cloned under the jobs lock; with
\* no job, an empty Vec is returned.
LookupJob ==
    /\ cpc = "miss"
    /\ IF CKey \in cjobs
       THEN /\ cpc' = "pair"
            /\ UNCHANGED <<ci, cres>>
       ELSE CachingReturn(<<>>)
    /\ UNCHANGED <<syncVars, packVars, restVars, cchunks, cjobs, cflag, todo, wpc, wkey, cplan, cwoken>>

\* get_chunk locks the pair's Mutex and waits on its Condvar, whatever the
\* bool says.
WaitOnPair ==
    /\ cpc = "pair"
    /\ cpc' = "waiting"
    /\ cwoken' = FALSE
    /\ UNCHANGED <<syncVars, packVars, restVars, cchunks, cjobs, cflag, todo, wpc, wkey, cplan, ci, cres>>

\* The woken caller reads the bool, then the cache.
WakeUp ==
    /\ cpc = "waiting"
    /\ cwoken
    /\ cwoken' = FALSE
    /\ CachingReturn(IF ~cflag[CKey] THEN <<>>
                     ELSE IF CKey \in DOMAIN cchunks THEN cchunks[CKey]
                     ELSE <<>>)
    /\ UNCHANGED <<syncVars, packVars, restVars, cchunks, cjobs, cflag, todo, wpc, wkey, cplan>>

\* Condvar::wait may return without a notification.
SpuriousWake ==
    /\ cpc = "waiting"
    /\ ~cwoken
    /\ cwoken' = TRUE
    /\ UNCHANGED <<syncVars, packVars, restVars, cchunks, cjobs, cflag, todo, wpc, wkey, cplan, ci, cpc,
                   cres>>

\* The steps of the provider's thread, and those of get_chunk's caller
\* (without the wakeup nobody sent).
CachingWorker == WorkerInsert \/ WorkerNotify \/ WorkerExit
CachingCaller == CachingGetChunk \/ LookupJob \/ WaitOnPair \/ WakeUp

NextCaching == CachingWorker \/ CachingCaller \/ SpuriousWake

\* Both threads are scheduled: a thread that can take a step takes it.  No
\* spurious wakeup is promised.
SpecCaching ==
    /\ InitCaching
    /\ [][NextCaching]_vars
    /\ WF_vars(CachingWorker)
    /\ WF_vars(CachingCaller)

\* The owner lets go of the provider, between two get_chunk calls or after
\* the last one: Drop takes the handle and calls join.
CachingDrop ==
    /\ cpc = "idle"
    /\ cpc' = "dropping"
    /\ UNCHANGED <<syncVars, packVars, restVars, cchunks, cjobs, cflag, todo, wpc, wkey, cplan, ci,
                   cwoken, cres>>

\* handle.join() returns once the thread has ended.
CachingJoin ==
    /\ cpc = "dropping"
    /\ wpc = "exited"
    /\ cpc' = "dropped"
    /\ UNCHANGED <<syncVars, packVars, restVars, cchunks, cjobs, cflag, todo, wpc, wkey, cplan, ci,
                   cwoken, cres>>

CachingOwner == CachingDrop \/ CachingJoin

\* A provider over a tree whose second file is empty, and a caller that
\* asks for ids of the manifest only.
InitCachingDrop ==
    /\ InitCaching
    /\ source[Paths[2]] = <<>>
    /\ \A k \in 1..Len(cplan) : cplan[k] \in ManifestKeys

NextCachingDrop == NextCaching \/ CachingOwner

\* The provider with its thread, one caller, and the drop of the provider:
\* the thread and the caller are scheduled, and the owner that has begun the
\* drop goes on with it.
SpecCachingDrop ==
    /\ InitCachingDrop
    /\ [][NextCachingDrop]_vars
    /\ WF_vars(CachingWorker)
    /\ WF_vars(CachingCaller)
    /\ WF_vars(CachingJoin)

\* ---------------------------------------------------------- pack downloader

\* The packs of the remote manifest: ids 1..NumPacks, pack id of length id.
NumPacks == 2
PackIds == 1..NumPacks
PackLength(id) == id

\* The most calls (prefetch_pack, get_pack_blocking) the owner makes.
MaxOps == 3

\* CACHE_LIMIT, scaled down from 100 MB.
CacheLimit == 2

\* The u64 counters, scaled down from 2^64.
WordModulus == 16
Wrap(n) == (n + WordModulus) % WordModulus

PreloadMsg(id) == [type |-> "Preload", id |-> id]
DownloadMsg(id) == [type |-> "Download", id |-> id]
TerminateMsg == [type |-> "Terminate", id |-> 0]

\* No sync() runs: the trees are empty.
NoSync ==
    /\ source = [path \in {Paths[i] : i \in 1..Len(Paths)} |-> <<>>]
    /\ ptree = source
    /\ dest = [path \in {Paths[i] : i \in 1..Len(Paths)} |-> NoFile]
    /\ dirs = {}
    /\ pc = "idle"
    /\ plan = EmptyPlan
    /\ fi = 0
    /\ oi = 0
    /\ cursor = 0
    /\ have = EmptyMap
    /\ calls = <<>>
    /\ dest0 = dest
    /\ prevOk = FALSE
    /\ aborted = FALSE
    /\ ops_completed = 0
    /\ progress = <<>>

\* PackDownloader::with_size: empty channel, queue, packs and cache, the
\* thread spawned at the top of its loop; the build is a debug or a release
\* build.
InitPack ==
    /\ NoSync
    /\ NoRest
    /\ NoCaching
    /\ chan = <<>>
    /\ queue = <<>>
    /\ packs = <<>>
    /\ lock = "none"
    /\ dpc = "top"
    /\ dfetch = 0
    /\ dfailed = FALSE
    /\ cache = {}
    /\ cache_size = 0
    /\ queued_size = 0
    /\ mpc = "idle"
    /\ mcall = [op |-> "none", id |-> 0]
    /\ mops = 0
    /\ mwoken = FALSE
    /\ release \in BOOLEAN
    /\ cache_limit = CacheLimit

\* The place of the first Terminate among msgs, 0 when there is none.
TerminateAt(msgs) ==
    IF \E k \in 1..Len(msgs) : msgs[k].type = "Terminate"
    THEN SetMin({k \in 1..Len(msgs) : msgs[k].type = "Terminate"})
    ELSE 0

\* queue_pack for each of msgs (Preload and Download alike): push_back.
QueueAll(q, msgs) == q \o [k \in 1..Len(msgs) |-> msgs[k].id]

\* The thread's loop, first statement: with an empty queue, a blocking recv.
ThreadRecv ==
    /\ dpc = "top"
    /\ IF queue = <<>>
       THEN /\ chan # <<>>
            /\ chan' = Tail(chan)
            /\ IF Head(chan).type = "Terminate"
               THEN /\ dpc' = "exited"
                    /\ queue' = queue
               ELSE /\ dpc' = "drain"
                    /\ queue' = QueueAll(queue, <<Head(chan)>>)
       ELSE /\ dpc' = "drain"
            /\ UNCHANGED <<chan, queue>>
    /\ UNCHANGED <<syncVars, cachingVars, restVars, packs, lock, dfetch, dfailed, cache,
                   cache_size, queued_size, mpc, mcall, mops, mwoken, release, cache_limit>>

\* The thread's loop, second statement: try_recv until the channel is empty
\* or a Terminate is received.
ThreadDrain ==
    /\ dpc = "drain"
    /\ LET t == TerminateAt(chan)
       IN  IF t = 0
           THEN /\ queue' = QueueAll(queue, chan)
                /\ chan' = <<>>
                /\ dpc' = "lock"
           ELSE /\ queue' = QueueAll(queue, SubSeq(chan, 1, t - 1))
                /\ chan' = SubSeq(chan, t + 1, Len(chan))
                /\ dpc' = "exited"
    /\ UNCHANGED <<syncVars, cachingVars, restVars, packs, lock, dfetch, dfailed, cache,
                   cache_size, queued_size, mpc, mcall, mops, mwoken, release, cache_limit>>

\* context.0.lock()
ThreadLock ==
    /\ dpc = "lock"
    /\ lock = "none"
    /\ lock' = "worker"
    /\ dpc' = "operate"
    /\ UNCHANGED <<syncVars, cachingVars, restVars, chan, queue, packs, dfetch, dfailed, cache,
                   cache_size, queued_size, mpc, mcall, mops, mwoken, release, cache_limit>>

\* operate() up to the request: recv on an empty queue, the drain, then
\* pop_front.  A Terminate makes operate return false.
ThreadOperate ==
    /\ dpc = "operate"
    /\ queue = <<>> => chan # <<>>
    /\ LET t == TerminateAt(chan)
           q == QueueAll(queue, chan)
       IN  IF t # 0
           THEN /\ queue' = QueueAll(queue, SubSeq(chan, 1, t - 1))
                /\ chan' = SubSeq(chan, t + 1, Len(chan))
                /\ lock' = "none"
                /\ dpc' = "notify_exit"
                /\ dfetch' = dfetch
           ELSE /\ chan' = <<>>
                /\ IF q = <<>>
                   THEN /\ queue' = q
                        /\ lock' = "none"
                        /\ dpc' = "notify"
                        /\ dfetch' = dfetch
                   ELSE /\ queue' = Tail(q)
                        /\ dfetch' = Head(q)
                        /\ lock' = lock
                        /\ dpc' = "fetch"
    /\ UNCHANGED <<syncVars, cachingVars, restVars, packs, dfailed, cache, cache_size,
                   queued_size, mpc, mcall, mops, mwoken, release, cache_limit>>

\* The request succeeds: the pack is pushed to packs, operate returns true
\* and the guard is dropped.
RequestOk ==
    /\ dpc = "fetch"
    /\ packs' = Append(packs, dfetch)
    /\ lock' = "none"
    /\ dpc' = "notify"
    /\ UNCHANGED <<syncVars, cachingVars, restVars, chan, queue, dfetch, dfailed, cache,
                   cache_size, queued_size, mpc, mcall, mops, mwoken, release, cache_limit>>

\* The request fails (send error, failure status, body error): operate
\* returns false.
RequestFails ==
    /\ dpc = "fetch"
    /\ dfailed' = TRUE
    /\ lock' = "none"
    /\ dpc' = "notify_exit"
    /\ UNCHANGED <<syncVars, cachingVars, restVars, chan, queue, packs, dfetch, cache,
                   cache_size, queued_size, mpc, mcall, mops, mwoken, release, cache_limit>>

\* notify_all after operate returned true: whoever waits now is woken.
ThreadNotify ==
    /\ dpc = "notify"
    /\ mwoken' = (mwoken \/ mpc = "waiting")
    /\ dpc' = "top"
    /\ UNCHANGED <<syncVars, cachingVars, restVars, chan, queue, packs, lock, dfetch, dfailed,
                   cache, cache_size, queued_size, mpc, mcall, mops, release, cache_limit>>

\* notify_all and break after operate returned false: the thread ends and
\* its Receiver is dropped.
ThreadNotifyExit ==
    /\ dpc = "notify_exit"
    /\ mwoken' = (mwoken \/ mpc = "waiting")
    /\ dpc' = "exited"
    /\ UNCHANGED <<syncVars, cachingVars, restVars, chan, queue, packs, lock, dfetch, dfailed,
                   cache, cache_size, queued_size, mpc, mcall, mops, release, cache_limit>>

\* cache_size(): the cached and the outstanding bytes.
TotalSize == cache_size + queued_size

\* An admission test that leaves the length of the pack out.
AdmitsNoLength(length) == Wrap(TotalSize) < cache_limit

\* prefetch_pack's test, self.cache_size() + length < self.cache_limit.
Admits(length) == Wrap(Wrap(TotalSize) + length) < cache_limit

\* An addition of prefetch_pack leaves the u64 range.
PrefetchOverflows(length) ==
    \/ TotalSize >= WordModulus
    \/ Wrap(TotalSize) + length >= WordModulus
    \/ Admits(length) /\ queued_size + length >= WordModulus

\* prefetch_pack(id, length).  A send to a thread that has ended fails, and
\* the unwrap of the failure panics.
PrefetchPack ==
    /\ mpc = "idle"
    /\ mops < MaxOps
    /\ mops' = mops + 1
    /\ \E id \in PackIds :
           /\ mcall' = [op |-> "prefetch_pack", id |-> id]
           /\ IF id \in cache
              THEN UNCHANGED <<chan, queued_size, mpc>>
              ELSE IF ~release /\ PrefetchOverflows(PackLength(id))
              THEN /\ mpc' = "panicked"
                   /\ UNCHANGED <<chan, queued_size>>
              ELSE IF Admits(PackLength(id))
              THEN /\ queued_size' = Wrap(queued_size + PackLength(id))
                   /\ IF dpc = "exited"
                      THEN /\ mpc' = "panicked"
                           /\ chan' = chan
                      ELSE /\ chan' = Append(chan, PreloadMsg(id))
                           /\ mpc' = mpc
              ELSE UNCHANGED <<chan, queued_size, mpc>>
    /\ UNCHANGED <<syncVars, cachingVars, restVars, queue, packs, lock, dpc, dfetch, dfailed,
                   cache, cache_size, mwoken, release, cache_limit>>

\* get_pack_blocking(id): a cached pack is returned; else Download(id) is
\* sent.
GetPackBlocking ==
    /\ mpc = "idle"
    /\ mops < MaxOps
    /\ mops' = mops + 1
    /\ \E id \in PackIds :
           /\ mcall' = [op |-> "get_pack_blocking", id |-> id]
           /\ IF id \in cache
              THEN UNCHANGED <<chan, mpc>>
              ELSE IF dpc = "exited"
              THEN /\ mpc' = "panicked"
                   /\ chan' = chan
              ELSE /\ chan' = Append(chan, DownloadMsg(id))
                   /\ mpc' = "locking"
    /\ UNCHANGED <<syncVars, cachingVars, restVars, queue, packs, lock, dpc, dfetch, dfailed,
                   cache, cache_size, queued_size, mwoken, release, cache_limit>>

\* get_pack_blocking: self.inner.0.lock()
OwnerLock ==
    /\ mpc = "locking"
    /\ lock = "none"
    /\ lock' = "main"
    /\ mpc' = "check"
    /\ UNCHANGED <<syncVars, cachingVars, restVars, chan, queue, packs, dpc, dfetch, dfailed,
                   cache, cache_size, queued_size, mcall, mops, mwoken, release, cache_limit>>

\* The test of the while loop: the pack is cached and returned, or the owner
\* waits on the Condvar, which unlocks the Mutex.
OwnerCheck ==
    /\ mpc = "check"
    /\ lock' = "none"
    /\ mwoken' = FALSE
    /\ mpc' = IF mcall.id \in cache THEN "idle" ELSE "waiting"
    /\ UNCHANGED <<syncVars, cachingVars, restVars, chan, queue, packs, dpc, dfetch, dfailed,
                   cache, cache_size, queued_size, mcall, mops, release, cache_limit>>

\* The woken owner takes the Mutex again.
OwnerWake ==
    /\ mpc = "waiting"
    /\ mwoken
    /\ lock = "none"
    /\ lock' = "main"
    /\ mwoken' = FALSE
    /\ mpc' = "moving"
    /\ UNCHANGED <<syncVars, cachingVars, restVars, chan, queue, packs, dpc, dfetch, dfailed,
                   cache, cache_size, queued_size, mcall, mops, release, cache_limit>>

\* Condvar::wait may return without a notification.
OwnerSpuriousWake ==
    /\ mpc = "waiting"
    /\ ~mwoken
    /\ mwoken' = TRUE
    /\ UNCHANGED <<syncVars, cachingVars, restVars, chan, queue, packs, lock, dpc, dfetch,
                   dfailed, cache, cache_size, queued_size, mpc, mcall, mops, release, cache_limit>>

\* while let Some(..) = inner.packs.pop_front(): one pack is moved to the
\* cache and counted; a subtraction below zero panics in a debug build and
\* wraps in a release build.  With packs empty the outer test is next.
OwnerMove ==
    /\ mpc = "moving"
    /\ IF packs = <<>>
       THEN /\ mpc' = "check"
            /\ UNCHANGED <<packs, lock, cache, cache_size, queued_size>>
       ELSE LET length == PackLength(Head(packs))
            IN  /\ packs' = Tail(packs)
                /\ IF ~release /\ (queued_size < length
                                   \/ cache_size + length >= WordModulus)
                   THEN /\ mpc' = "panicked"
                        /\ lock' = "none"
                        /\ UNCHANGED <<cache, cache_size, queued_size>>
                   ELSE /\ queued_size' = Wrap(queued_size - length)
                        /\ cache_size' = Wrap(cache_size + length)
                        /\ cache' = cache \cup {Head(packs)}
                        /\ UNCHANGED <<mpc, lock>>
    /\ UNCHANGED <<syncVars, cachingVars, restVars, chan, queue, dpc, dfetch, dfailed, mcall,
                   mops, mwoken, release, cache_limit>>

\* Drop for PackDownloader: Terminate is sent.
DropDownloader ==
    /\ mpc = "idle"
    /\ mcall' = [op |-> "drop", id |-> 0]
    /\ IF dpc = "exited"
       THEN /\ mpc' = "panicked"
            /\ chan' = chan
       ELSE /\ chan' = Append(chan, TerminateMsg)
            /\ mpc' = "joining"
    /\ UNCHANGED <<syncVars, cachingVars, restVars, queue, packs, lock, dpc, dfetch, dfailed,
                   cache, cache_size, queued_size, mops, mwoken, release, cache_limit>>

\* Drop for PackDownloader: thread.join() returns once the thread has ended.
OwnerJoin ==
    /\ mpc = "joining"
    /\ dpc = "exited"
    /\ mpc' = "dropped"
    /\ UNCHANGED <<syncVars, cachingVars, restVars, chan, queue, packs, lock, dpc, dfetch,
                   dfailed, cache, cache_size, queued_size, mcall, mops, mwoken,
                   release, cache_limit>>

\* The steps of the download thread, and the steps the owner takes inside a
\* call it has made (without the wakeup nobody sent).
PackThread ==
    \/ ThreadRecv
    \/ ThreadDrain
    \/ ThreadLock
    \/ ThreadOperate
    \/ RequestOk
    \/ RequestFails
    \/ ThreadNotify
    \/ ThreadNotifyExit

PackOwner == OwnerLock \/ OwnerCheck \/ OwnerWake \/ OwnerMove \/ OwnerJoin

NextPack ==
    \/ PackThread
    \/ PackOwner
    \/ PrefetchPack
    \/ GetPackBlocking
    \/ DropDownloader
    \/ OwnerSpuriousWake

\* Both threads are scheduled, and a thread that asks for the Mutex again and
\* again gets it: a step that is possible again and again is taken.  The
\* owner is free to make no further call, and no spurious wakeup is promised.
SpecPack ==
    /\ InitPack
    /\ [][NextPack]_vars
    /\ SF_vars(PackThread)
    /\ SF_vars(PackOwner)

\* -------------------------------------------- remote manifest and provider

\* The largest pack size with_pack_size is given.
MaxPackSize == 3

\* The most get_chunk calls made to one RemoteChunkProvider.
MaxGets == 2

RECURSIVE Power(_, _)
Power(b, e) == IF e = 0 THEN 1 ELSE b * Power(b, e - 1)

\* u64::from_le_bytes(md5(bytes)[0..8]) over the bytes of the chunk ids of a
\* pack: an injective numbering of the lists of ids.
IdBase == Power(HashBase, MAX_CHUNK) + 1

RECURSIVE PackHash(_)
PackHash(ids) ==
    IF ids = <<>> THEN 0
    ELSE (ids[1] + 1) + IdBase * PackHash(Tail(ids))

\* The chunks of the files of a manifest from file i on, file after file.
RECURSIVE AllChunks(_, _)
AllChunks(manifest, i) ==
    IF i > Len(manifest) THEN <<>>
    ELSE manifest[i].chunks \o AllChunks(manifest, i + 1)

MkPack(length, ids) == [hash |-> PackHash(ids), length |-> length, chunks |-> ids]

\* A packer that keeps counting the length across the packs it saves.
RECURSIVE PackLoopNoReset(_, _, _, _, _, _)
PackLoopNoReset(chunks, k, size, pks, length, ids) ==
    IF k > Len(chunks)
    THEN IF length > 0 THEN Append(pks, MkPack(length, ids)) ELSE pks
    ELSE LET full == length + chunks[k].length > size
         IN  PackLoopNoReset(chunks, k + 1, size,
                             IF full THEN Append(pks, MkPack(length, ids)) ELSE pks,
                             length + chunks[k].length,
                             Append(IF full THEN <<>> ELSE ids, chunks[k].hash))

\* A packer that saves the open pack already when the next chunk fills it
\* to the limit.
RECURSIVE PackLoopEager(_, _, _, _, _, _)
PackLoopEager(chunks, k, size, pks, length, ids) ==
    IF k > Len(chunks)
    THEN IF length > 0 THEN Append(pks, MkPack(length, ids)) ELSE pks
    ELSE LET full == length + chunks[k].length >= size
         IN  PackLoopEager(chunks, k + 1, size,
                           IF full THEN Append(pks, MkPack(length, ids)) ELSE pks,
                           (IF full THEN 0 ELSE length) + chunks[k].length,
                           Append(IF full THEN <<>> ELSE ids, chunks[k].hash))

\* The loops of with_pack_size from chunk k on, and the pack saved after
\* them: a pack is saved when the next chunk does not fit, then the chunk
\* is added to the pack that is open.
RECURSIVE PackLoop(_, _, _, _, _, _)
PackLoop(chunks, k, size, pks, length, ids) ==
    IF k > Len(chunks)
    THEN IF length > 0 THEN Append(pks, MkPack(length, ids)) ELSE pks
    ELSE LET full == length + chunks[k].length > size
         IN  PackLoop(chunks, k + 1, size,
                      IF full THEN Append(pks, MkPack(length, ids)) ELSE pks,
                      (IF full THEN 0 ELSE length) + chunks[k].length,
                      Append(IF full THEN <<>> ELSE ids, chunks[k].hash))

\* RemoteManifest::with_pack_size(size, manifest).pks
WithPackSizeOf(size, manifest) == PackLoop(AllChunks(manifest, 1), 1, size, <<>>, 0, <<>>)

\* The first loop of RemoteChunkProvider::new: chunk id -> chunk.
RECURSIVE ChunksById(_, _, _)
ChunksById(chunks, k, map) ==
    IF k > Len(chunks) THEN map
    ELSE ChunksById(chunks, k + 1, MapInsert(map, chunks[k].hash, chunks[k]))

\* A provider that does not move the offset on within a pack.
RECURSIVE ChunkMapLoopNoOffset(_, _, _, _, _, _)
ChunkMapLoopNoOffset(byId, pks, i, k, offset, map) ==
    IF i > Len(pks) THEN [err |-> FALSE, map |-> map]
    ELSE IF k > Len(pks[i].chunks)
    THEN ChunkMapLoopNoOffset(byId, pks, i + 1, 1, 0, map)
    ELSE LET chunk_id == pks[i].chunks[k]
         IN  IF chunk_id \notin DOMAIN byId THEN [err |-> TRUE, map |-> map]
             ELSE ChunkMapLoopNoOffset(byId, pks, i, k + 1, offset,
                      MapInsert(map, chunk_id,
                                [pack_id |-> pks[i].hash,
                                 pack_length |-> pks[i].length,
                                 offset |-> offset,
                                 length |-> byId[chunk_id].length]))

\* The second loop of RemoteChunkProvider::new from chunk k of pack i on:
\* every id of a pack is mapped to the pack, to the sum of the lengths of
\* the ids before it, and to its length; an id the manifest does not hold
\* ends the loop with ChunkNotFound.
RECURSIVE ChunkMapLoop(_, _, _, _, _, _)
ChunkMapLoop(byId, pks, i, k, offset, map) ==
    IF i > Len(pks) THEN [err |-> FALSE, map |-> map]
    ELSE IF k > Len(pks[i].chunks)
    THEN ChunkMapLoop(byId, pks, i + 1, 1, 0, map)
    ELSE LET chunk_id == pks[i].chunks[k]
         IN  IF chunk_id \notin DOMAIN byId THEN [err |-> TRUE, map |-> map]
             ELSE ChunkMapLoop(byId, pks, i, k + 1, offset + byId[chunk_id].length,
                      MapInsert(map, chunk_id,
                                [pack_id |-> pks[i].hash,
                                 pack_length |-> pks[i].length,
                                 offset |-> offset,
                                 length |-> byId[chunk_id].length]))

ChunkMapOf(manifest, pks) ==
    ChunkMapLoop(ChunksById(AllChunks(manifest, 1), 1, EmptyMap), pks, 1, 1, 0, EmptyMap)

\* The map of the serializer: chunk id -> the bytes read from the file of
\* the tree at the chunk's offset.
RECURSIVE ChunkBytes(_, _, _, _)
ChunkBytes(tree, manifest, i, map) ==
    IF i > Len(manifest) THEN map
    ELSE LET content == tree[manifest[i].path]
             chunks == manifest[i].chunks
             read == [k \in 1..Len(chunks) |->
                         [hash |-> chunks[k].hash,
                          length |-> Len(Slice(content, chunks[k].offset,
                                               chunks[k].length)),
                          offset |-> chunks[k].offset]]
         IN  ChunkBytes(tree, manifest, i + 1,
                        [h \in (DOMAIN map) \cup {chunks[k].hash : k \in 1..Len(chunks)} |->
                            IF \E k \in 1..Len(chunks) : chunks[k].hash = h
                            THEN LET k == CHOOSE k \in 1..Len(chunks) :
                                              /\ chunks[k].hash = h
                                              /\ \A l \in (k + 1)..Len(chunks) :
                                                     chunks[l].hash # h
                                 IN  Slice(content, chunks[k].offset, chunks[k].length)
                            ELSE map[h]])

\* The file the serializer writes for a pack: the bytes of its chunks, one
\* after the other.
RECURSIVE PackFile(_, _)
PackFile(bytesOf, ids) ==
    IF ids = <<>> THEN <<>>
    ELSE bytesOf[ids[1]] \o PackFile(bytesOf, Tail(ids))

\* The pack files of the server: pack id -> bytes.
ServerFiles(tree, pks) ==
    LET bytesOf == ChunkBytes(tree, ManifestOf(tree), 1, EmptyMap)
    IN  [id \in {pks[i].hash : i \in 1..Len(pks)} |->
            PackFile(bytesOf, pks[CHOOSE i \in 1..Len(pks) : pks[i].hash = id].chunks)]

\* What a request for a file can deliver: the file, or a shorter answer.
Downloads(file) == {SubSeq(file, 1, n) : n \in 0..Len(file)}

\* The versions of a file a remote manifest may have been built from: the
\* file, or an older one that lacks its last byte.
OlderVersions(content) ==
    IF content = <<>> THEN {content}
    ELSE {content, SubSeq(content, 1, Len(content) - 1)}

\* The limits a PackDownloader is built with.
CacheLimits == {CacheLimit, 2 * CacheLimit}

\* A PackDownloader as with_size leaves it, its thread at the top of its
\* loop.
DownloaderNew ==
    /\ chan = <<>>
    /\ queue = <<>>
    /\ packs = <<>>
    /\ lock = "none"
    /\ dpc = "top"
    /\ dfetch = 0
    /\ dfailed = FALSE
    /\ cache = {}
    /\ cache_size = 0
    /\ queued_size = 0
    /\ mpc = "idle"
    /\ mcall = [op |-> "none", id |-> 0]
    /\ mops = 0
    /\ mwoken = FALSE

\* Nothing of the remote side is built yet.
RemoteStart ==
    /\ rpacks = <<>>
    /\ chunk_map = EmptyMap
    /\ rpc = "manifest"
    /\ to_cache = {}
    /\ pdata = EmptyMap
    /\ rgets = 0
    /\ rres = [kind |-> "none"]
    /\ psize \in 1..MaxPackSize
    /\ DownloaderNew
    /\ NoCaching
    /\ NoManifest
    /\ NoSender
    /\ SyncerNew
    /\ dirs = {}
    /\ dest0 = dest

\* A destination with its second file missing is about to be synced to the
\* source tree over a remote manifest built from the tree ptree, the source
\* or an older version of it, by a debug build (no sum of set_plan leaves
\* the range of the counters, so a release build does the same).
InitRemote ==
    /\ \E s1 \in ContentsOf(1), s2 \in ContentsOf(2) :
           source = (Paths[1] :> s1) @@ (Paths[2] :> s2)
    /\ \E p1 \in OlderVersions(source[Paths[1]]) :
           ptree = (Paths[1] :> p1) @@ (Paths[2] :> source[Paths[2]])
    /\ \E d1 \in ContentsOf(1) \cup {NoFile} :
           dest = (Paths[1] :> d1) @@ (Paths[2] :> NoFile)
    /\ cache_limit \in CacheLimits
    /\ release = FALSE
    /\ RemoteStart

\* A provider is about to be built over a remote manifest of the source
\* tree and asked for chunks.
InitRemoteGet ==
    /\ \E s1 \in ContentsOf(1), s2 \in ContentsOf(2) :
           source = (Paths[1] :> s1) @@ (Paths[2] :> s2)
    /\ ptree = source
    /\ dest = [path \in {Paths[i] : i \in 1..Len(Paths)} |-> NoFile]
    /\ cache_limit = CacheLimit
    /\ release \in BOOLEAN
    /\ RemoteStart

\* RemoteManifest::with_pack_size(psize, manifest of ptree)
WithPackSize ==
    /\ rpc = "manifest"
    /\ rpacks' = WithPackSizeOf(psize, ManifestOf(ptree))
    /\ rpc' = "packed"
    /\ UNCHANGED <<syncVars, cachingVars, packVars, manifestVars, senderVars, psize, chunk_map,
                   to_cache, pdata, rgets, rres>>

\* RemoteChunkProvider::new(base_url, manifest)
NewProvider ==
    /\ rpc = "packed"
    /\ LET built == ChunkMapOf(ManifestOf(ptree), rpacks)
       IN  IF built.err
           THEN rpc' = "failed" /\ chunk_map' = chunk_map
           ELSE rpc' = "provider" /\ chunk_map' = built.map
    /\ UNCHANGED <<syncVars, cachingVars, packVars, manifestVars, senderVars, psize, rpacks,
                   to_cache, pdata, rgets, rres>>

\* The operations of a plan, entry after entry.
RECURSIVE AllOperations(_, _)
AllOperations(p, i) ==
    IF i > Len(p.operations) THEN <<>>
    ELSE p.operations[i][2] \o AllOperations(p, i + 1)

\* A set_plan that gathers the packs of the chunks of every operation.
PacksToCacheAllOps(p, map) ==
    LET ops == AllOperations(p, 1)
    IN  {<<map[ops[k].hash].pack_id, map[ops[k].hash].pack_length>> :
            k \in {k \in 1..Len(ops) :
                      ops[k].kind \in {"Fetch", "Copy"} /\ ops[k].hash \in DOMAIN map}}

\* The first loop of set_plan: the (pack_id, pack_length) of every Fetch
\* whose chunk the map holds.
PacksToCache(p, map) ==
    LET ops == AllOperations(p, 1)
    IN  {<<map[ops[k].hash].pack_id, map[ops[k].hash].pack_length>> :
            k \in {k \in 1..Len(ops) :
                      ops[k].kind = "Fetch" /\ ops[k].hash \in DOMAIN map}}

\* sync(): plan() returned Ok(plan), and sync_from_plan calls
\* provider.set_plan(&plan), which gathers packs_to_cache.
RemoteSetPlan ==
    /\ rpc = "provider"
    /\ plan' = PlanOf(ManifestOf(source), dest)
    /\ to_cache' = PacksToCache(plan', chunk_map)
    /\ rpc' = "set_plan"
    /\ calls' = Append(calls, <<"set_plan", 0>>)
    /\ UNCHANGED <<source, ptree, dest, dirs, pc, fi, oi, cursor, have, dest0, prevOk,
                   aborted, ops_completed, progress, cachingVars, packVars,
                   manifestVars, senderVars, psize, rpacks, chunk_map, pdata, rgets, rres>>

\* One pass of the second loop of set_plan: prefetch_pack(pack_id,
\* pack_length) for an entry of packs_to_cache, in whatever order the
\* HashSet yields them.
RemotePrefetch ==
    /\ rpc = "set_plan"
    /\ mpc = "idle"
    /\ \E entry \in to_cache :
           LET id == entry[1]
               length == entry[2]
           IN  /\ to_cache' = to_cache \ {entry}
               /\ mcall' = [op |-> "prefetch_pack", id |-> id]
               /\ IF id \in cache
                  THEN UNCHANGED <<chan, queued_size, mpc>>
                  ELSE IF ~release /\ PrefetchOverflows(length)
                  THEN /\ mpc' = "panicked"
                       /\ UNCHANGED <<chan, queued_size>>
                  ELSE IF Admits(length)
                  THEN /\ queued_size' = Wrap(queued_size + length)
                       /\ chan' = Append(chan, PreloadMsg(id))
                       /\ mpc' = mpc
                  ELSE UNCHANGED <<chan, queued_size, mpc>>
    /\ UNCHANGED <<syncVars, cachingVars, manifestVars, senderVars, queue, packs, lock, dpc, dfetch,
                   dfailed, cache, cache_size, mops, mwoken, release, cache_limit,
                   psize, rpacks, chunk_map, rpc, pdata, rgets, rres>>

\* set_plan returns when packs_to_cache is used up.
RemoteSetPlanReturn ==
    /\ rpc = "set_plan"
    /\ mpc = "idle"
    /\ to_cache = {}
    /\ rpc' = "ready"
    /\ UNCHANGED <<syncVars, cachingVars, packVars, manifestVars, senderVars, psize, rpacks,
                   chunk_map, to_cache, pdata, rgets, rres>>

\* get_chunk(key) up to its return.  A key the map does not hold gives
\* ChunkNotFound.  Else get_pack_blocking gives the pack: from the cache,
\* or as the thread has fetched it after Download(id) (the bytes are moved
\* to the cache and counted; the subtraction below zero panics in a debug
\* build and wraps in a release build).  A pack shorter than the end of the
\* chunk gives Unspecified, else the slice is returned.
RemoteGetChunk ==
    /\ rpc \in {"provider", "ready"}
    /\ mpc = "idle"
    /\ rgets < MaxGets
    /\ rgets' = rgets + 1
    /\ \E key \in (DOMAIN chunk_map) \cup {HashOf(<<>>)} :
           IF key \notin DOMAIN chunk_map
           THEN /\ rres' = [kind |-> "ChunkNotFound", key |-> key, data |-> <<>>]
                /\ UNCHANGED <<pdata, cache, cache_size, queued_size, mpc, mcall>>
           ELSE LET chunk_info == chunk_map[key]
                    id == chunk_info.pack_id
                    end == chunk_info.offset + chunk_info.length
                    Answer(data) ==
                        IF Len(data) < end
                        THEN [kind |-> "Unspecified", key |-> key, data |-> <<>>]
                        ELSE [kind |-> "Ok", key |-> key,
                              data |-> Slice(data, chunk_info.offset, chunk_info.length)]
                IN  /\ mcall' = [op |-> "get_pack_blocking", id |-> id]
                    /\ IF id \in DOMAIN pdata
                       THEN /\ rres' = Answer(pdata[id])
                            /\ UNCHANGED <<pdata, cache, cache_size, queued_size, mpc>>
                       ELSE \E data \in Downloads(ServerFiles(ptree, rpacks)[id]) :
                                IF ~release /\ queued_size < Len(data)
                                THEN /\ mpc' = "panicked"
                                     /\ UNCHANGED <<pdata, cache, cache_size,
                                                    queued_size, rres>>
                                ELSE /\ queued_size' = Wrap(queued_size - Len(data))
                                     /\ cache_size' = Wrap(cache_size + Len(data))
                                     /\ cache' = cache \cup {id}
                                     /\ pdata' = MapInsert(pdata, id, data)
                                     /\ rres' = Answer(data)
                                     /\ mpc' = mpc
    /\ UNCHANGED <<syncVars, cachingVars, manifestVars, senderVars, chan, queue, packs, lock, dpc,
                   dfetch, dfailed, mops, mwoken, release, cache_limit, psize, rpacks,
                   chunk_map, rpc, to_cache>>

NextRemote ==
    \/ WithPackSize
    \/ NewProvider
    \/ RemoteSetPlan
    \/ RemotePrefetch
    \/ RemoteSetPlanReturn

SpecRemote == InitRemote /\ [][NextRemote]_vars

NextRemoteGet ==
    \/ WithPackSize
    \/ NewProvider
    \/ RemoteGetChunk

SpecRemoteGet == InitRemoteGet /\ [][NextRemoteGet]_vars

\* ------------------------------------------------------------------ sender

\* The most Messages the socket delivers.
MaxMsgs == 3

\* The contents of the files the Sender is given: shorter than CHUNK_SIZE.
SenderContents == SeqsUpTo(TailBytes, MaxTailLen)

\* The ids a FileChecksums message may carry: the indexes of file_list.files,
\* and one past the last.
ChecksumIds == 0..Len(Paths)

\* enum Message.
Message(type, id) == [type |-> type, id |-> id]
Messages ==
    {Message("Empty", 0), Message("Hello", 1), Message("FileList", 0), Message("Shutdown", 0)}
        \cup {Message("FileChecksums", id) : id \in ChecksumIds}

\* What listen sends: Message::Hello(2), Message::FileList(get_file_list()),
\* SyncMessage::FileBytes(buffer), SyncMessage::FileEnd.
HelloReply == [type |-> "Hello", data |-> <<2>>]
FileListReply == [type |-> "FileList", data |-> Paths]
FileBytes(buffer) == [type |-> "FileBytes", data |-> buffer]
FileEnd == [type |-> "FileEnd", data |-> <<>>]

\* Sender::new(source, socket) and the call of listen: get_file_list has
\* walked the source.
InitSender ==
    /\ NoManifest
    /\ NoRemote
    /\ NoCaching
    /\ NoPack
    /\ \E s1 \in SenderContents, s2 \in SenderContents :
           source = (Paths[1] :> s1) @@ (Paths[2] :> s2)
    /\ ptree = source
    /\ dest = [path \in {Paths[i] : i \in 1..Len(Paths)} |-> NoFile]
    /\ dirs = {}
    /\ pc = "idle"
    /\ plan = EmptyPlan
    /\ fi = 0
    /\ oi = 0
    /\ cursor = 0
    /\ have = EmptyMap
    /\ calls = <<>>
    /\ dest0 = dest
    /\ prevOk = FALSE
    /\ aborted = FALSE
    /\ ops_completed = 0
    /\ progress = <<>>
    /\ arrivals \in SeqsUpTo(Messages, MaxMsgs)
    /\ recvs = 0
    /\ sent = <<>>
    /\ spc = "recv"

\* The Message in hand.
CurMessage == arrivals[recvs]

\* A listener that goes back to receive after its Hello, without the list.
SendHelloOnly ==
    /\ spc = "hello"
    /\ sent' = Append(sent, HelloReply)
    /\ spc' = "recv"
    /\ UNCHANGED <<syncVars, cachingVars, packVars, manifestVars, remoteVars, arrivals, recvs>>

\* self.socket.receive()? returned a Message, and the match on it: Empty and
\* FileList do nothing, Shutdown breaks out of the loop and listen returns
\* Ok(()), FileChecksums indexes file_list.files with the id.
SenderReceive ==
    /\ spc = "recv"
    /\ recvs < Len(arrivals)
    /\ recvs' = recvs + 1
    /\ LET response == arrivals[recvs + 1]
       IN  spc' = CASE response.type = "Empty" -> "recv"
                    [] response.type = "FileList" -> "recv"
                    [] response.type = "Hello" -> "hello"
                    [] response.type = "Shutdown" -> "ok"
                    [] response.type = "FileChecksums" ->
                           IF response.id < Len(Paths) THEN "deltas" ELSE "panicked"
    /\ UNCHANGED <<syncVars, cachingVars, packVars, manifestVars, remoteVars, arrivals, sent>>

\* self.socket.receive()? returned Err.
ReceiveFails ==
    /\ spc = "recv"
    /\ spc' = "err"
    /\ UNCHANGED <<syncVars, cachingVars, packVars, manifestVars, remoteVars, arrivals, recvs, sent>>

\* self.socket.send(&Message::Hello(2))?
SendHello ==
    /\ spc = "hello"
    /\ sent' = Append(sent, HelloReply)
    /\ spc' = "file_list"
    /\ UNCHANGED <<syncVars, cachingVars, packVars, manifestVars, remoteVars, arrivals, recvs>>

\* self.socket.send(&Message::FileList(self.get_file_list()))?
SendFileList ==
    /\ spc = "file_list"
    /\ sent' = Append(sent, FileListReply)
    /\ spc' = "recv"
    /\ UNCHANGED <<syncVars, cachingVars, packVars, manifestVars, remoteVars, arrivals, recvs>>

\* send_deltas for a file shorter than CHUNK_SIZE: the loop over its bytes
\* fills buffer and sends nothing, send_buffer stays empty, and the whole
\* buffer is sent as one FileBytes.
SendDeltas ==
    /\ spc = "deltas"
    /\ sent' = Append(sent, FileBytes(source[Paths[CurMessage.id + 1]]))
    /\ spc' = "file_end"
    /\ UNCHANGED <<syncVars, cachingVars, packVars, manifestVars, remoteVars, arrivals, recvs>>

\* self.socket.send(&SyncMessage::FileEnd)?, and back to the loop.
SendFileEnd ==
    /\ spc = "file_end"
    /\ sent' = Append(sent, FileEnd)
    /\ spc' = "recv"
    /\ UNCHANGED <<syncVars, cachingVars, packVars, manifestVars, remoteVars, arrivals, recvs>>

\* A send, or the open or a read of send_deltas, returned Err: `?` returns it.
SendFails ==
    /\ spc \in {"hello", "file_list", "deltas", "file_end"}
    /\ spc' = "err"
    /\ UNCHANGED <<syncVars, cachingVars, packVars, manifestVars, remoteVars, arrivals, recvs, sent>>

NextSender ==
    \/ SenderReceive
    \/ ReceiveFails
    \/ SendHello
    \/ SendFileList
    \/ SendDeltas
    \/ SendFileEnd
    \/ SendFails

SpecSender == InitSender /\ [][NextSender]_vars

\* ----------------------------------------------------------------- claims

PathIx == 1..Len(Paths)

\* The entries of the plan for path.
EntriesFor(path) == {k \in 1..Len(plan.operations) : plan.operations[k][1] = path}

InPlan(path) == EntriesFor(path) # {}

\* plan() has just returned: plan was computed from the tree dest.
Planned == pc = "set_plan"

SourceChunks(i) == ChunkList(source[Paths[i]])

\* C1: after sync returns Ok, every manifest file exists at the destination,
\* in an existing parent directory, and is byte-identical to the source file.
C1_RoundTrip ==
    pc = "done" =>
        \A i \in PathIx :
            /\ dest[Paths[i]] = source[Paths[i]]
            /\ ParentOf(Paths[i]) \in dirs

\* C2: a destination file that was longer than the source file before the
\* sync has the source file's length after a sync that returned Ok.
C2_Truncation ==
    pc = "done" =>
        \A i \in PathIx :
            (dest0[Paths[i]] # NoFile /\ Len(dest0[Paths[i]]) > Len(source[Paths[i]]))
                => Len(dest[Paths[i]]) = Len(source[Paths[i]])

\* C3: a manifest file whose destination file is bit-identical to the source
\* file has no entry in the plan.
C3_SkipIdentical ==
    Planned =>
        \A i \in PathIx : dest[Paths[i]] = source[Paths[i]] => ~InPlan(Paths[i])

\* C4: a manifest file is omitted from the plan only if its destination file
\* exists and is bit-identical to the source file.
C4_OmittedOnlyIfIdentical ==
    Planned =>
        \A i \in PathIx : ~InPlan(Paths[i]) => dest[Paths[i]] = source[Paths[i]]

\* C5: in the sync that follows a sync that returned Ok, the plan has no Copy
\* and no Fetch, and no file of the destination changes.
C5_Idempotence ==
    prevOk =>
        /\ dest = dest0
        /\ (pc \notin {"idle", "failed"} =>
                \A k \in 1..Len(plan.operations) : ShouldSkip(plan.operations[k][2]))

\* C6: once some sync has aborted, a later sync that returns Ok leaves every
\* manifest file byte-identical to the source file.
C6_Recovery ==
    (aborted /\ pc = "done") =>
        \A i \in PathIx : dest[Paths[i]] = source[Paths[i]]

\* C7: a manifest file with at least one chunk whose destination file does
\* not exist has exactly one plan entry, which is one Fetch per source chunk,
\* in source order, with the source chunk's hash, offset and length.
C7_MissingDestAllFetch ==
    Planned =>
        \A i \in PathIx :
            (dest[Paths[i]] = NoFile /\ Len(SourceChunks(i)) >= 1) =>
                /\ Cardinality(EntriesFor(Paths[i])) = 1
                /\ \A k \in EntriesFor(Paths[i]) :
                       plan.operations[k][2] =
                           [j \in 1..Len(SourceChunks(i)) |->
                               Fetch(SourceChunks(i)[j].hash,
                                     SourceChunks(i)[j].offset,
                                     SourceChunks(i)[j].length)]

C7_Witness ==
    /\ Planned
    /\ \E i \in PathIx : dest[Paths[i]] = NoFile /\ Len(SourceChunks(i)) >= 2

\* The destination chunks of path i, and the one recorded under a hash: the
\* last chunk of the destination file with that hash.
DestChunks(i) == IF dest[Paths[i]] = NoFile THEN <<>> ELSE ChunkList(dest[Paths[i]])

WithHash(chunks, hash) == {k \in 1..Len(chunks) : chunks[k].hash = hash}

Recorded(chunks, hash) ==
    chunks[CHOOSE k \in WithHash(chunks, hash) : \A m \in WithHash(chunks, hash) : m <= k]

\* The operation the classification rule gives source chunk s.
Classified(chunks, s) ==
    IF WithHash(chunks, s.hash) = {} THEN Fetch(s.hash, s.offset, s.length)
    ELSE IF Recorded(chunks, s.hash).offset = s.offset
            /\ Recorded(chunks, s.hash).length = s.length
         THEN Seek(s.length)
         ELSE Copy(s.hash, Recorded(chunks, s.hash).offset, Recorded(chunks, s.hash).length)

ClassifiedOps(i) ==
    [j \in 1..Len(SourceChunks(i)) |-> Classified(DestChunks(i), SourceChunks(i)[j])]

\* C8: the operations of a file are, in source order, one per source chunk:
\* Seek when the recorded destination chunk has the chunk's offset and length,
\* Copy of the recorded chunk when it lies elsewhere, Fetch when the hash is
\* not among the destination chunks; a file with all hashes present has no
\* Fetch.  (A file whose operations are all Seek has no entry.)
C8_Classification ==
    Planned =>
        \A i \in PathIx :
            /\ \A k \in EntriesFor(Paths[i]) : plan.operations[k][2] = ClassifiedOps(i)
            /\ Cardinality(EntriesFor(Paths[i])) <= 1
            /\ ~InPlan(Paths[i]) =>
                   \A j \in 1..Len(SourceChunks(i)) : ClassifiedOps(i)[j].kind = "Seek"
            /\ (\A j \in 1..Len(SourceChunks(i)) :
                    WithHash(DestChunks(i), SourceChunks(i)[j].hash) # {}) =>
                   \A k \in EntriesFor(Paths[i]) :
                       \A j \in 1..Len(plan.operations[k][2]) :
                           plan.operations[k][2][j].kind # "Fetch"

\* A destination that holds one source chunk twice and in place, one source
\* chunk elsewhere, and lacks none: the plan has a Seek and a Copy.
C8_Witness ==
    /\ Planned
    /\ \E k \in 1..Len(plan.operations) :
           /\ \E j \in 1..Len(plan.operations[k][2]) : plan.operations[k][2][j].kind = "Seek"
           /\ \E j \in 1..Len(plan.operations[k][2]) : plan.operations[k][2][j].kind = "Copy"
    /\ \E i \in PathIx : \E a, b \in 1..Len(DestChunks(i)) :
           a # b /\ DestChunks(i)[a].hash = DestChunks(i)[b].hash

RECURSIVE SumOps(_, _)
SumOps(entries, k) ==
    IF k > Len(entries) THEN 0 ELSE Len(entries[k][2]) + SumOps(entries, k + 1)

\* C9: total_ops is the number of operations of the files included in the plan.
C9_TotalOps ==
    Planned => plan.total_ops = SumOps(plan.operations, 1)

\* C10: set_plan is the first provider call of sync_from_plan and is made
\* once; every later call is get_chunk; nothing at the destination changes
\* before set_plan.
C10_SetPlanFirst ==
    /\ pc \in {"open", "preload", "write", "truncate", "done"} => calls # <<>>
    /\ calls # <<>> => calls[1][1] = "set_plan"
    /\ \A k \in 2..Len(calls) : calls[k][1] = "get_chunk"
    /\ calls = <<>> => dest = dest0

C10_Witness ==
    /\ pc = "done"
    /\ Len(calls) >= 3
    /\ dest # dest0

\* The hashes of the Fetch operations among operations[1..n], in order.
RECURSIVE FetchHashesOf(_, _)
FetchHashesOf(operations, n) ==
    IF n = 0 THEN <<>>
    ELSE FetchHashesOf(operations, n - 1)
         \o (IF operations[n].kind = "Fetch" THEN <<operations[n].hash>> ELSE <<>>)

\* The hashes of the Fetch operations of the first n entries of the plan.
RECURSIVE FetchHashesOfEntries(_)
FetchHashesOfEntries(n) ==
    IF n = 0 THEN <<>>
    ELSE FetchHashesOfEntries(n - 1)
         \o FetchHashesOf(plan.operations[n][2], Len(plan.operations[n][2]))

\* The keys of the get_chunk calls of the current run, in order.
GetChunkKeys == [k \in 1..(Len(calls) - 1) |-> calls[k + 1][2]]

IsPrefix(s, u) == Len(s) <= Len(u) /\ s = SubSeq(u, 1, Len(s))

\* C11: the get_chunk calls are, in order, the hashes of the Fetch operations
\* executed so far (one call per Fetch, none for a Seek or a Copy); when
\* sync_from_plan returns Ok they are the hashes of all Fetch operations.
C11_GetChunkPerFetch ==
    /\ IsPrefix(GetChunkKeys, FetchHashesOfEntries(Len(plan.operations)))
    /\ pc = "write" =>
           GetChunkKeys = FetchHashesOfEntries(fi - 1) \o FetchHashesOf(CurOps, oi - 1)
    /\ pc = "truncate" => GetChunkKeys = FetchHashesOfEntries(fi)
    /\ pc = "done" => GetChunkKeys = FetchHashesOfEntries(Len(plan.operations))

C11_Witness ==
    /\ pc = "done"
    /\ Len(GetChunkKeys) >= 2
    /\ \E k \in 1..Len(plan.operations) : \E j \in 1..Len(plan.operations[k][2]) :
           plan.operations[k][2][j].kind = "Copy"

\* C12: a Fetch whose id the provider does not hold makes the provider fail
\* with ChunkNotFound, and sync_from_plan returns that failure.
C12_AbsentIdAborts ==
    [][(/\ pc = "write"
        /\ CurOp.kind = "Fetch"
        /\ CurOp.hash \notin DOMAIN ProviderIndex(ptree)
        /\ calls' # calls) => pc' = "failed"]_vars

\* C13: a Fetch that does not fail has written exactly chunk.length bytes
\* (bytes of another length make sync_from_plan fail).
C13_FetchLengthChecked ==
    [][(/\ pc = "write"
        /\ CurOp.kind = "Fetch"
        /\ calls' # calls
        /\ pc' # "failed") => cursor' = cursor + CurOp.length]_vars

\* C14: a get_chunk call of the caching provider for an id of the manifest
\* eventually returns, whatever the interleaving with the thread.
C14_CachingReturns ==
    (cpc # "idle" /\ CKey \in DOMAIN cflag) ~> (cpc = "idle")

\* The number of get_chunk calls for key among the first n of the caller.
CallsFor(key, n) == Cardinality({k \in 1..n : cplan[k] = key})

\* C15: a chunk is held once per planned fetch: when as many get_chunk calls
\* for an id have returned as are planned for it, the id is evicted.
C15_EvictedAtZero ==
    \A key \in DOMAIN cflag :
        (CallsFor(key, Len(cplan)) > 0 /\ CallsFor(key, ci) = CallsFor(key, Len(cplan)))
            => key \notin DOMAIN cchunks

\* The owner is inside get_pack_blocking, after its Download was sent.
OwnerBlocked == mpc \in {"locking", "check", "waiting", "moving"}

SeqRange(s) == {s[k] : k \in 1..Len(s)}

\* C16: before each request the thread has received every pending message,
\* and when a Download(p) is pending (the owner is blocked for p, which was
\* not fetched yet) the request is for p, ahead of the queued Preloads.
C16_DownloadPreempts ==
    [][(dpc = "operate" /\ dpc' = "fetch") =>
           /\ chan' = <<>>
           /\ (OwnerBlocked /\ mcall.id \notin cache /\ mcall.id \notin SeqRange(packs))
                  => dfetch' = mcall.id]_vars

\* The owner makes the call op for a pack that is not cached, and the call
\* does not panic.
CallsUncached(op) ==
    /\ mops' = mops + 1
    /\ mcall'.op = op
    /\ mcall'.id \notin cache
    /\ mpc' # "panicked"

\* The call changes nothing: no message, no counter.
CallDropped == chan' = chan /\ queued_size' = queued_size /\ cache_size' = cache_size

\* C17 (as amended): prefetch_pack(id, length) for a pack that is not cached
\* drops the request when cache_size + queued_size + length >= cache_limit
\* (u64 arithmetic) and otherwise counts length as queued and sends
\* Preload(id); get_pack_blocking(id) for a pack that is not cached always
\* sends Download(id).
C17_Admission ==
    [][/\ CallsUncached("prefetch_pack") =>
              IF Wrap(Wrap(cache_size + queued_size) + PackLength(mcall'.id)) >= CacheLimit
              THEN CallDropped
              ELSE /\ chan' = Append(chan, PreloadMsg(mcall'.id))
                   /\ queued_size' = Wrap(queued_size + PackLength(mcall'.id))
       /\ CallsUncached("get_pack_blocking") =>
              chan' = Append(chan, DownloadMsg(mcall'.id))]_vars

\* C17 (as stated): the request is dropped when cache_size + queued_size >=
\* cache_limit and otherwise sent.
C17_AdmissionAsStated ==
    [][/\ CallsUncached("prefetch_pack") =>
              IF cache_size + queued_size >= CacheLimit
              THEN CallDropped
              ELSE chan' = Append(chan, PreloadMsg(mcall'.id))
       /\ CallsUncached("get_pack_blocking") =>
              chan' = Append(chan, DownloadMsg(mcall'.id))]_vars

\* A prefetch_pack was dropped with room left below the limit, after another
\* was admitted.
C17_Witness ==
    /\ mcall.op = "prefetch_pack"
    /\ mcall.id \notin cache
    /\ mpc = "idle"
    /\ queued_size > 0
    /\ cache_size + queued_size < CacheLimit
    /\ \A k \in 1..Len(chan) : chan[k].id # mcall.id
    /\ mcall.id \notin SeqRange(queue) \cup SeqRange(packs)
    /\ dfetch # mcall.id

\* C18: the bytes held (cache_size) and the bytes held or requested
\* (cache_size + queued_size) never exceed cache_limit.
C18_BoundedCache ==
    /\ cache_size <= CacheLimit
    /\ cache_size + queued_size <= CacheLimit

\* C19: a get_pack_blocking call that was blocked returns, unless a request
\* of the thread failed.
C19_GetPackReturns == OwnerBlocked ~> (~OwnerBlocked \/ dfailed)

\* C20: once a request has failed, a blocked get_pack_blocking call comes
\* back to its caller.
C20_FailureSurfaced == (dfailed /\ OwnerBlocked) ~> ~OwnerBlocked

\* C21: a drop of the PackDownloader, in whatever state its thread is, sends
\* Terminate and joins the thread without a panic; the thread starts no
\* request once it has received Terminate.
C21_GracefulShutdown ==
    /\ mcall.op = "drop" => mpc \in {"joining", "dropped"}
    /\ mpc = "dropped" => dpc = "exited"
    /\ (mcall.op = "drop" /\ dpc = "fetch") =>
           \E k \in 1..Len(chan) : chan[k].type = "Terminate"

\* C27: a failing step of sync_from_plan returns the error at once: the step
\* that fails and every step after it leave the destination files as they
\* are (no later operation, no truncate, no rollback of earlier files) and
\* no get_chunk call follows the failure within that run.
C27_AbortOnFailure ==
    [][/\ (pc' = "failed" /\ pc \in {"set_plan", "open", "preload", "write", "truncate"}) =>
            /\ dest' = dest
            /\ fi' = fi /\ oi' = oi /\ cursor' = cursor
            /\ aborted'
       /\ pc = "failed" =>
            /\ dest' = dest
            /\ pc' \in {"failed", "set_plan"}
            /\ calls' = <<>>]_vars

\* C27 witness: get_chunk failed at a Fetch of the first file of a plan of
\* two files, after an operation of that file had written and while
\* operations of that file were still to come.
C27_Witness ==
    /\ pc = "failed"
    /\ aborted
    /\ fi = 1
    /\ Len(plan.operations) = 2
    /\ oi \in 2..(Len(CurOps) - 1)
    /\ CurOp.kind = "Fetch"
    /\ calls # <<>>
    /\ calls[Len(calls)] = <<"get_chunk", CurOp.hash>>
    /\ dest[CurPath] # dest0[CurPath]
    /\ dest[CurPath] # source[CurPath]

\* C29: the bytes a Copy writes are the bytes the file held at the chunk's
\* range before the write pass of the file began, whatever earlier
\* operations of the pass wrote over that range.
C29_CopyWritesPreloaded ==
    [][(pc = "write" /\ CurOp.kind = "Copy" /\ pc' # "failed") =>
           /\ Slice(dest'[CurPath], cursor, CurOp.length)
                  = Slice(dest0[CurPath], CurOp.offset, CurOp.length)
           /\ cursor' = cursor + CurOp.length
           /\ have' = have]_vars

\* C29 witness: a Copy is about to run and the range it copies from no
\* longer holds the bytes it held before the write pass.
C29_Witness ==
    /\ pc = "write"
    /\ CurOp.kind = "Copy"
    /\ oi > 1
    /\ CanRead(dest0[CurPath], CurOp.offset, CurOp.length)
    /\ Slice(dest[CurPath], CurOp.offset, CurOp.length)
           # Slice(dest0[CurPath], CurOp.offset, CurOp.length)

\* C28: the callback is invoked once after each executed operation with
\* floor(ops_done / total_ops * 100); the values never decrease and lie in
\* 0..100.
C28_ProgressValue ==
    /\ Len(progress) = ops_completed
    /\ \A k \in 1..Len(progress) :
           /\ progress[k] = (100 * k) \div plan.total_ops
           /\ progress[k] \in 0..100
           /\ k > 1 => progress[k - 1] <= progress[k]

\* C26: whatever the order in which the workers of the pool take and finish
\* their files, from_file_list returns one FileChunkInfo per listed file,
\* in ascending order of the paths: the same manifest for every order.
C26_ManifestSorted ==
    bpc = "returned" =>
        /\ Len(result) = Len(flist)
        /\ \A i \in 1..Len(flist) :
               \E k \in 1..Len(result) :
                   /\ result[k] = [path |-> Paths[flist[i]],
                                   chunks |-> ChunkList(source[Paths[flist[i]]])]
                   /\ \A l \in 1..Len(result) :
                          result[l].path = result[k].path => l = k
        /\ \A k, l \in 1..Len(result) :
               k < l => PathRank(result[k].path) < PathRank(result[l].path)
        /\ Len(flist) = Len(Paths) => result = ManifestOf(source)

\* C26 witness: the manifest was returned after the workers finished the
\* files in descending order of the paths, the reverse of the list's order.
C26_Witness ==
    /\ bpc = "returned"
    /\ flist = <<1, 2>>
    /\ Len(files) = 2
    /\ files[1].path = Paths[2]
    /\ files[2].path = Paths[1]

\* The chunk ids of the manifest the packs are built from.
ManifestIds ==
    LET all == AllChunks(ManifestOf(ptree), 1)
    IN  {all[k].hash : k \in 1..Len(all)}

\* The places (pack, position) at which the packs list a chunk id.
Occurrences(id) ==
    {place \in (1..Len(rpacks)) \X (1..(MaxFileLen + MaxTailLen)) :
        /\ place[2] <= Len(rpacks[place[1]].chunks)
        /\ rpacks[place[1]].chunks[place[2]] = id}

\* C22: every chunk id of the manifest is listed by exactly one pack of
\* with_pack_size's result, and exactly once, also when the manifest holds
\* the id several times.
C22_ChunkInOnePack ==
    rpc = "packed" =>
        \A id \in ManifestIds : Cardinality(Occurrences(id)) = 1

\* C23: no pack of with_pack_size's result is longer than the pack size,
\* also when one chunk alone is longer than the pack size.
C23_PackWithinSize ==
    rpc = "packed" =>
        \A i \in 1..Len(rpacks) : rpacks[i].length <= psize

\* The length of the manifest's chunk of a given id.
LengthOfId(id) ==
    LET all == AllChunks(ManifestOf(ptree), 1)
    IN  all[CHOOSE k \in 1..Len(all) : all[k].hash = id].length

RECURSIVE SumLengths(_)
SumLengths(ids) ==
    IF ids = <<>> THEN 0 ELSE LengthOfId(ids[1]) + SumLengths(Tail(ids))

RECURSIVE SumPackLengths(_)
SumPackLengths(n) ==
    IF n = 0 THEN 0 ELSE rpacks[n].length + SumPackLengths(n - 1)

RECURSIVE SumChunkLengths(_)
SumChunkLengths(chunks) ==
    IF chunks = <<>> THEN 0 ELSE chunks[1].length + SumChunkLengths(Tail(chunks))

\* C24: the length of every pack is the sum of the lengths of the chunk
\* occurrences it lists, and the lengths of the packs add up to the lengths
\* of all chunks of all files of the manifest.
C24_PackLengthIsSum ==
    rpc = "packed" =>
        /\ \A i \in 1..Len(rpacks) : rpacks[i].length = SumLengths(rpacks[i].chunks)
        /\ SumPackLengths(Len(rpacks))
               = SumChunkLengths(AllChunks(ManifestOf(ptree), 1))

\* C24 witness: with_pack_size has returned two packs or more, a later one
\* of them with two chunks or more.
C24_Witness ==
    /\ rpc = "packed"
    /\ Len(rpacks) >= 2
    /\ \E i \in 2..Len(rpacks) : Len(rpacks[i].chunks) >= 2

\* C25: the provider maps every chunk id of the manifest to a pack that
\* lists it, to the sum of the lengths listed before it there and to its
\* length; that range of the pack's file holds bytes of that id.  get_chunk
\* returns that range of the downloaded pack, Unspecified when the pack is
\* shorter than the end of the range, ChunkNotFound for an id not mapped.
C25_PackAddressing ==
    rpc \in {"provider", "ready"} =>
        /\ \A id \in ManifestIds :
               /\ id \in DOMAIN chunk_map
               /\ LET info == chunk_map[id]
                      file == ServerFiles(ptree, rpacks)[info.pack_id]
                      bytes == Slice(file, info.offset, info.length)
                  IN  /\ \E place \in Occurrences(id) :
                             LET pack == rpacks[place[1]]
                             IN  /\ pack.hash = info.pack_id
                                 /\ pack.length = info.pack_length
                                 /\ info.offset
                                        = SumLengths(SubSeq(pack.chunks, 1, place[2] - 1))
                      /\ info.length = LengthOfId(id)
                      /\ Len(bytes) = info.length
                      /\ HashOf(bytes) = id
        /\ rres.kind = "Ok" =>
               /\ rres.key \in DOMAIN chunk_map
               /\ chunk_map[rres.key].pack_id \in DOMAIN pdata
               /\ rres.data = Slice(pdata[chunk_map[rres.key].pack_id],
                                    chunk_map[rres.key].offset,
                                    chunk_map[rres.key].length)
               /\ Len(rres.data) = chunk_map[rres.key].length
               /\ HashOf(rres.data) = rres.key
        /\ rres.kind = "Unspecified" =>
               /\ rres.key \in DOMAIN chunk_map
               /\ Len(pdata[chunk_map[rres.key].pack_id])
                      < chunk_map[rres.key].offset + chunk_map[rres.key].length
        /\ rres.kind = "ChunkNotFound" => rres.key \notin DOMAIN chunk_map

\* C25 witness: the second get_chunk call returned a chunk that does not
\* start its pack, from a pack that was downloaded whole.
C25_Witness ==
    /\ rgets = 2
    /\ rres.kind = "Ok"
    /\ chunk_map[rres.key].offset > 0
    /\ Cardinality(Occurrences(rres.key)) >= 2
    /\ Len(pdata[chunk_map[rres.key].pack_id]) = chunk_map[rres.key].pack_length

\* The chunk ids of the Fetch operations of the plan.
FetchIds ==
    LET ops == AllOperations(plan, 1)
    IN  {ops[k].hash : k \in {k \in 1..Len(ops) : ops[k].kind = "Fetch"}}

\* The ids of the packs that list a chunk of a Fetch operation of the plan.
PacksWithFetch ==
    {rpacks[i].hash : i \in {i \in 1..Len(rpacks) :
        \E k \in 1..Len(rpacks[i].chunks) : rpacks[i].chunks[k] \in FetchIds}}

\* C30: set_plan sends Preload at most once per pack, only for packs that
\* list a chunk of a Fetch operation of the plan and only within the cache
\* bound, and it returns while no download has been waited for.
C30_SetPlanPreloads ==
    rpc \in {"set_plan", "ready"} =>
        /\ \A k \in 1..Len(chan) :
               /\ chan[k].type = "Preload"
               /\ chan[k].id \in PacksWithFetch
               /\ \A l \in 1..Len(chan) : chan[l].id = chan[k].id => l = k
        /\ queued_size < cache_limit
        /\ mpc = "idle"
        /\ rpc = "ready" => (dpc = "top" /\ packs = <<>> /\ cache = {})

\* C30 witness: set_plan has returned after a Preload, for a plan with two
\* Fetch operations on chunks of one pack and a Fetch of a chunk the
\* provider does not know, and with a pack that lists no Fetch chunk.
C30_Witness ==
    /\ rpc = "ready"
    /\ Len(chan) >= 1
    /\ \E i \in 1..Len(rpacks) :
           rpacks[i].chunks # <<>> /\ rpacks[i].hash \notin PacksWithFetch
    /\ \E id \in FetchIds : id \notin DOMAIN chunk_map
    /\ LET ops == AllOperations(plan, 1)
       IN  \E k, l \in 1..Len(ops) :
               /\ k < l
               /\ ops[k].kind = "Fetch" /\ ops[k].hash \in DOMAIN chunk_map
               /\ ops[l].kind = "Fetch" /\ ops[l].hash \in DOMAIN chunk_map
               /\ chunk_map[ops[k].hash].pack_id = chunk_map[ops[l].hash].pack_id

\* The chunk-id lists of the first n packs, one after the other.
RECURSIVE PackedIds(_)
PackedIds(n) ==
    IF n = 0 THEN <<>> ELSE PackedIds(n - 1) \o rpacks[n].chunks

\* C31: the chunk-id lists of the packs, in pack order, are the chunk ids of
\* the manifest in file-then-chunk order; a pack is followed by another
\* only where its length and the next chunk's length exceed the pack size;
\* the id of a pack is determined by the ids it lists.
C31_GreedyInOrder ==
    rpc = "packed" =>
        LET all == AllChunks(ManifestOf(ptree), 1)
        IN  /\ PackedIds(Len(rpacks)) = [k \in 1..Len(all) |-> all[k].hash]
            /\ \A i \in 1..(Len(rpacks) - 1) :
                   /\ rpacks[i + 1].chunks # <<>>
                   /\ rpacks[i].length + LengthOfId(rpacks[i + 1].chunks[1]) > psize
            /\ \A i \in 1..Len(rpacks) : rpacks[i].hash = PackHash(rpacks[i].chunks)
            /\ \A i, j \in 1..Len(rpacks) :
                   rpacks[i].chunks = rpacks[j].chunks <=> rpacks[i].hash = rpacks[j].hash

\* C31 witness: with_pack_size has returned a pack that holds two chunks
\* and fills the pack size exactly, followed by another pack.
C31_Witness ==
    /\ rpc = "packed"
    /\ Len(rpacks) >= 2
    /\ Len(rpacks[1].chunks) >= 2
    /\ rpacks[1].length = psize

\* C39: no pack of with_pack_size's result is empty: each lists a chunk id
\* and has a length above zero.
C39_NoEmptyPack ==
    rpc = "packed" =>
        \A i \in 1..Len(rpacks) : rpacks[i].chunks # <<>> /\ rpacks[i].length > 0

\* The total length of the packs of a list of ids.
RECURSIVE SumPackLength(_)
SumPackLength(ids) ==
    IF ids = <<>> THEN 0 ELSE PackLength(ids[1]) + SumPackLength(Tail(ids))

\* The ids of the packs asked of the thread and not yet moved to the cache:
\* in the channel, in the queue, in the request in flight, in packs.
Outstanding ==
    QueueAll(<<>>, chan) \o queue \o (IF dpc = "fetch" THEN <<dfetch>> ELSE <<>>) \o packs

RECURSIVE SumOverSet(_)
SumOverSet(ids) ==
    IF ids = {} THEN 0
    ELSE LET id == CHOOSE id \in ids : TRUE
         IN  PackLength(id) + SumOverSet(ids \ {id})

\* C36: as long as no request has failed and the downloader is not dropped,
\* queued_size is the total length of the packs asked of the thread and not
\* yet moved to the cache, cache_size is the total length of the cached
\* packs, and no step on the counters leaves the range of a u64.
C36_Accounting ==
    (~dfailed /\ mcall.op # "drop") =>
        /\ mpc # "panicked"
        /\ queued_size = SumPackLength(Outstanding)
        /\ cache_size = SumOverSet(cache)

\* C37: the thread starts no request for a pack it has fetched before (a
\* pack in packs or in the cache).
C37_FetchedOnce ==
    dpc = "fetch" =>
        /\ dfetch \notin cache
        /\ \A k \in 1..Len(packs) : packs[k] # dfetch

\* C38: when sync_from_plan has returned Ok for a plan with at least one
\* entry, the last value the progress callback was given is 100.
C38_LastProgressIs100 ==
    (pc = "done" /\ plan.operations # <<>>) =>
        /\ progress # <<>>
        /\ progress[Len(progress)] = 100

\* The source chunk the operation in hand stands for.
CurChunk == ChunkList(source[CurPath])[oi]

\* C34: before the i-th operation of a plan entry the write cursor is the
\* offset of the i-th source chunk, an operation that succeeds moves it on by
\* that chunk's length, and at the truncation it is the size of the source
\* file, which the file is cut to.
C34_WriteCursor ==
    [][/\ pc = "write" =>
            /\ Len(CurOps) = Len(ChunkList(source[CurPath]))
            /\ cursor = CurChunk.offset
            /\ pc' # "failed" => cursor' = cursor + CurChunk.length
       /\ pc = "truncate" =>
            /\ cursor = Len(source[CurPath])
            /\ pc' # "failed" => Len(dest'[CurPath]) = Len(source[CurPath])]_vars

C34_Witness ==
    /\ pc = "truncate"
    /\ \E j, k \in 1..Len(CurOps) : CurOps[j].kind = "Copy" /\ CurOps[k].kind = "Fetch"
    /\ Len(dest[CurPath]) > cursor

\* The paths that have an entry in the plan.
PlannedPaths == {plan.operations[k][1] : k \in 1..Len(plan.operations)}

C35_ReturnsChunkBytes ==
    \A k \in 1..ci :
        cplan[k] \in ManifestKeys => cres[k] = GetChunk(source, cplan[k])

\* C32: the thread reads each id of the manifest once (an id it inserts is
\* not in the cache yet), removes the job and sets its bool before it goes
\* on, and ends when all ids are read; a drop of the provider that has begun
\* ends, however many get_chunk calls were made before it.
C32_WorkerEndsDropCompletes ==
    /\ [][(wpc = "next" /\ wpc' = "notify") =>
              (wkey' \in ManifestKeys /\ wkey' \notin DOMAIN cchunks)]_vars
    /\ [][(wpc = "notify" /\ wpc' = "next") =>
              (wkey \notin cjobs' /\ cflag'[wkey])]_vars
    /\ [](wpc = "exited" =>
              (DOMAIN cchunks = ManifestKeys /\ cjobs = {}
               /\ \A k \in ManifestKeys : cflag[k]))
    /\ <>(wpc = "exited")
    /\ (cpc = "dropping") ~> (cpc = "dropped")

C32_Witness ==
    /\ cpc = "dropped"
    /\ wpc = "exited"
    /\ Cardinality(ManifestKeys) >= 2
    /\ ci < Len(cplan)
    /\ ci >= 1

\* What listen sends for a Message.
RepliesTo(m) ==
    CASE m.type = "Hello" -> <<HelloReply, FileListReply>>
      [] m.type = "FileChecksums" /\ m.id < Len(Paths) ->
             <<FileBytes(source[Paths[m.id + 1]]), FileEnd>>
      [] OTHER -> <<>>

RECURSIVE RepliesToAll(_)
RepliesToAll(msgs) ==
    IF msgs = <<>> THEN <<>> ELSE RepliesTo(msgs[1]) \o RepliesToAll(Tail(msgs))

\* C33: listen takes the Messages in arrival order and one at a time: back
\* at receive (or returned Ok) it has sent the replies to the Messages
\* received, in order (none for Empty and FileList, Hello then FileList for
\* Hello); it has returned Ok exactly when the last Message received is
\* Shutdown, and no Message before the last one received is Shutdown.
C33_ListenInOrder ==
    /\ recvs <= Len(arrivals)
    /\ \A k \in 1..(recvs - 1) : arrivals[k].type # "Shutdown"
    /\ spc = "ok" <=> (recvs >= 1 /\ arrivals[recvs].type = "Shutdown")
    /\ spc \in {"recv", "ok"} => sent = RepliesToAll(SubSeq(arrivals, 1, recvs))
    /\ IsPrefix(sent, RepliesToAll(SubSeq(arrivals, 1, recvs)))

C33_Witness ==
    /\ spc = "ok"
    /\ recvs = 2
    /\ Len(arrivals) = 3
    /\ arrivals[1].type = "Hello"
    /\ sent = <<HelloReply, FileListReply>>

====
